---- MODULE Spec2Model ----
(***************************************************************************)
(* State-machine model of the monocular SLAM engine of ar-engine           *)
(* (SLAMSystem behind the ARTracker facade and its embind wrapper) and of  *)
(* the self-contained VisualOdometry variant.                              *)
(*                                                                         *)
(* Abstractions.  A camera frame is named by its age: the number of        *)
(* processFrame calls made since it was handed in, 0 being the frame of the *)
(* current (or last) call; ages saturate at MaxAge.  A cached frame         *)
(* therefore grows older by one in every call that keeps it, and a keyframe *)
(* records the ages its parts had in the call that created it.  The OpenCV  *)
(* primitives (ORB, BFMatcher, findEssentialMat, recoverPose,              *)
(* solvePnPRansac, triangulatePoints) are external: their results are      *)
(* drawn nondeterministically from small sets that straddle every          *)
(* threshold the code compares them with.  The keypoints of a frame are    *)
(* the indices 1..n of that frame, so a keypoint vector is the pair        *)
(* [frame, n].  A pose keeps its translation along one axis, in hundredths *)
(* of the (arbitrary) map unit.                                            *)
(***************************************************************************)
EXTENDS Integers, Sequences, FiniteSets, TLC

\* ------------------------------------------------------------------ bounds
MaxFrames == 15
MaxTargets == 1
MaxAge == 1
MaxPoseSteps == 2
MaxRegistered == 3
MaxDetections == 1
MaxVoFrames == 3
MaxLongFrames == 30
MaxKeyFrames == 12

\* ------------------------------------------------- configuration constants
MIN_INIT_MATCHES == 100
MIN_TRACKING_MATCHES == 20
KEYFRAME_INTERVAL == 15
KEYFRAME_TRANSLATION == 10
MIN_INIT_INLIERS == 30
MIN_PNP_POINTS == 6
PLANE_MIN_MAP_POINTS == 50
PLANE_INTERVAL == 30
TARGET_INTERVAL == 5
TARGET_MIN_MATCHES == 15
MIN_PLANE_POINTS == 50
HIT_MIN_INLIERS == 20
\* |t| of a recoverPose translation is 1: ten times KEYFRAME_TRANSLATION (0.1).
UnitT == 10 * KEYFRAME_TRANSLATION

\* ------------------------------------------------------------ input ranges
\* Numbers of ORB keypoints a frame may yield: below / at MIN_TRACKING_MATCHES,
\* below / at MIN_INIT_MATCHES.
FeatureCounts == {MIN_TRACKING_MATCHES - 1, MIN_TRACKING_MATCHES,
                  MIN_INIT_MATCHES - 1, MIN_INIT_MATCHES}
\* Frame sizes handed to the binding, and lengths of the RGBA buffer that
\* comes with them: exact, short, long.
FrameDims == {<<640, 480>>}
BufLens(w, h) == {w * h * 4, w * h * 4 - 4, w * h * 4 + 4}
\* Numbers of matches that survive every filter of one triangulation.
TriCounts == {0, MIN_TRACKING_MATCHES}
\* First matched keypoint (minus one) in the left keyframe.
TriOffsets == {0, 10}
\* A triangulation of PLANE_MIN_MAP_POINTS matches far down the keypoint list
\* of a feature-rich keyframe: <<first keypoint minus one, matches>>.
TriLarge == <<MIN_INIT_MATCHES - MIN_TRACKING_MATCHES, PLANE_MIN_MAP_POINTS>>
\* Translations solvePnPRansac may report: at the last keyframe, exactly
\* KEYFRAME_TRANSLATION away, just beyond it.
PnPTranslations == {UnitT, UnitT + KEYFRAME_TRANSLATION, UnitT + KEYFRAME_TRANSLATION + 1}
\* Translation of a recoverPose delta (a unit vector).
DeltaTranslations == {UnitT}

\* An empty cv::Mat / an empty keypoint vector.
NoFrame == -1
ThisFrame == 0
NoKeypoints == [frame |-> NoFrame, n |-> 0]
IdentityPose == [t |-> 0]

VARIABLES
  \* SLAMSystem (slam_system.h:86-103)
  initialized, tracking, frameCount, nextMapPointId, nextKeyFrameId,
  currentPose, mapPoints, keyframes, prevFrame, prevKeypoints, prevDescriptors,
  \* ImageTargetTracker / PlaneDetector as seen from SLAMSystem
  targetRan, planeRan,
  \* ImageTargetTracker (image_target.h:76-79)
  targets, detectedTargets, nextTargetId,
  \* PlaneDetector (plane_detector.h:59-60), the number of detectPlanes runs
  \* and the planes the last run built
  planes, nextPlaneId, planeRuns, planeCandidates,
  \* HitTester (hit_test.h:159-160) and the result of its last hitTest
  groundPlane, hasValidPlane, hitResult,
  \* the last host call: operation, its input and its result
  lastRet, lastPath, lastBufOk, allLow,
  \* the array the last getViewMatrix or getProjectionMatrix handed to the host
  lastArray,
  \* VisualOdometry (visual_odometry.h:206-233): frames as the number of the
  \* call that brought them (0 = empty), points as <<x, y>>
  voInitialized, voFrameCount, prevGray, prevPoints, currPoints, pointIds,
  pointAges, nextPointId, tTotal, frameData,
  \* fitPlaneRANSAC of either detector: whose loop runs, where it stands, the
  \* indices of the last draw and the best inlier count so far
  ransacOf, ransacStatus, iter, sample, bestInlierCount,
  \* detectLoopClosure as createKeyFrame last ran it: whether it ran, goodCount
  \* of every keyframe it compared (position i + 1 for keyframes[i]), bestMatch
  loopRan, loopCounts, bestMatch

slamState == <<initialized, tracking, frameCount, nextMapPointId, nextKeyFrameId,
               currentPose, mapPoints, keyframes, prevFrame, prevKeypoints,
               prevDescriptors>>
targetState == <<targets, detectedTargets, nextTargetId>>
planeState == <<planes, nextPlaneId, planeRuns, planeCandidates>>
hitState == <<groundPlane, hasValidPlane, hitResult>>
cvState == <<targetState, targetRan, planeRan, planeState, hitState>>
callState == <<lastRet, lastPath, lastBufOk, allLow, lastArray>>
voState == <<voInitialized, voFrameCount, prevGray, prevPoints, currPoints, pointIds,
             pointAges, nextPointId, tTotal, frameData>>
ransacState == <<ransacOf, ransacStatus, iter, sample, bestInlierCount>>
loopState == <<loopRan, loopCounts, bestMatch>>
vars == <<slamState, cvState, callState, voState, ransacState, loopState>>

\* ------------------------------------------------------------------ helpers
Abs(x) == IF x < 0 THEN 0 - x ELSE x
Min(a, b) == IF a < b THEN a ELSE b
Last(s) == s[Len(s)]

\* The outcomes a count-valued primitive may report, given its upper limit.
AtMost(S, limit) == IF \E x \in S : x <= limit THEN {x \in S : x <= limit} ELSE {0}

\* A cached frame as the next call sees it: one call older.
Older(f) == IF f = NoFrame THEN NoFrame ELSE Min(f + 1, MaxAge)
OlderKeypoints(k) == [frame |-> Older(k.frame), n |-> k.n]

\* x++ leaves x + 1 behind.
PostIncrementOff(x) == x
PostIncrement(x) == x + 1

\* KeyFrame::KeyFrame: copies of image, pose, keypoints and descriptors, and
\* mapPointIds.resize(keypoints.size(), -1).
KeyFrameResizeOffByOne(id, img, pose, kps, descs) ==
  [id |-> id, image |-> img, pose |-> pose, keypoints |-> kps, descriptors |-> descs,
   mapPointIds |-> [i \in 1..(kps.n + 1) |-> -1]]
KeyFrame(id, img, pose, kps, descs) ==
  [id |-> id, image |-> img, pose |-> pose, keypoints |-> kps, descriptors |-> descs,
   mapPointIds |-> [i \in 1..kps.n |-> -1]]

\* MapPoint::MapPoint followed by the two addObservation calls of
\* triangulateNewPoints: matchCount starts at 1 and grows with each observation.
MapPointLeftOnly(id, kfA, q, kfB) ==
  [id |-> id, descriptor |-> <<kfA.id, q>>,
   observations |-> <<kfA.id, kfA.id>>, matchCount |-> 3, isBad |-> FALSE]
MapPoint(id, kfA, q, kfB) ==
  [id |-> id, descriptor |-> <<kfA.id, q>>,
   observations |-> <<kfA.id, kfB.id>>, matchCount |-> 3, isBad |-> FALSE]

\* std::map operator[] assignment: inserts, or overwrites the entry of that key.
MapStore(mp, id, rec) == [x \in (DOMAIN mp) \cup {id} |-> IF x = id THEN rec ELSE mp[x]]

NonBad(mp) == {id \in DOMAIN mp : ~mp[id].isBad}

\* The matches of one triangulation that pass the distance, |w| and depth
\* tests, in match order: k one-to-one pairs <<queryIdx, trainIdx>>.
TriPairs(q0, k) == [i \in 1..k |-> <<q0 + i, i>>]

\* SLAMSystem::triangulateNewPoints, the loop over the matches from position i
\* on.  st = [mapPoints, next, kf1, kf2].
RECURSIVE TriangulateFrom(_, _, _)
TriangulateFrom(st, pairs, i) ==
  IF i > Len(pairs) THEN st
  ELSE LET q == pairs[i][1]
           t == pairs[i][2]
       IN IF st.kf1.mapPointIds[q] >= 0
          THEN TriangulateFrom(st, pairs, i + 1)
          ELSE LET id == st.next
                   mp == MapPoint(id, st.kf1, q, st.kf2)
               IN TriangulateFrom(
                    [mapPoints |-> MapStore(st.mapPoints, id, mp),
                     next |-> PostIncrement(st.next),
                     kf1 |-> [st.kf1 EXCEPT !.mapPointIds[q] = id],
                     kf2 |-> [st.kf2 EXCEPT !.mapPointIds[t] = id]],
                    pairs, i + 1)

TriangulateNewPoints(mp, next, kf1, kf2, pairs) ==
  TriangulateFrom([mapPoints |-> mp, next |-> next, kf1 |-> kf1, kf2 |-> kf2], pairs, 1)

\* The pair sets the matcher and the filters can leave for kf1, kf2.
TriChoices(kf1, kf2) ==
  {<<q0, k>> \in (TriOffsets \X TriCounts) \cup {TriLarge} :
      /\ q0 + k <= kf1.descriptors.n
      /\ k <= kf2.descriptors.n
      /\ (k = 0 => q0 = 0)}

\* SLAMSystem::needNewKeyFrame, with frameCount and currentPose as they are
\* when track calls it.
NeedNewKeyFrameAtThreshold(kfs, fc, pose) ==
  IF kfs = <<>> THEN TRUE
  ELSE IF fc % KEYFRAME_INTERVAL # 0 THEN FALSE
  ELSE Abs(pose.t - kfs[Len(kfs)].pose.t) >= KEYFRAME_TRANSLATION
NeedNewKeyFrame(kfs, fc, pose) ==
  IF kfs = <<>> THEN TRUE
  ELSE IF fc % KEYFRAME_INTERVAL # 0 THEN FALSE
  ELSE Abs(pose.t - Last(kfs).pose.t) > KEYFRAME_TRANSLATION

\* ------------------------------------------------------------- arithmetic
\* The float and double values of the geometry code are modelled as exact
\* rationals <<numerator, denominator>> in lowest terms, denominator > 0.
\* An operand is computed once: "x \in {e}" names the value of e, and Only
\* takes the one element of a singleton.
Only(S) == CHOOSE x \in S : TRUE
RECURSIVE Gcd(_, _)
Gcd(a, b) == IF b = 0 THEN a ELSE Only({Gcd(y, x % y) : x \in {a}, y \in {b}})
Rat(n, d) ==
  Only({IF g = 0 THEN <<0, 1>>
        ELSE IF y < 0 THEN <<0 - (x \div g), 0 - (y \div g)>>
        ELSE <<x \div g, y \div g>> :
        <<x, y, g>> \in {<<n, d, Gcd(Abs(n), Abs(d))>>}})
RInt(k) == <<k, 1>>
RAdd(a, b) == Only({Rat(x[1] * y[2] + y[1] * x[2], x[2] * y[2]) : x \in {a}, y \in {b}})
RNeg(a) == Only({<<0 - x[1], x[2]>> : x \in {a}})
RSub(a, b) == RAdd(a, RNeg(b))
RMul(a, b) == Only({Rat(x[1] * y[1], x[2] * y[2]) : x \in {a}, y \in {b}})
RDiv(a, b) == Only({Rat(x[1] * y[2], x[2] * y[1]) : x \in {a}, y \in {b}})
RLt(a, b) == \E x \in {a}, y \in {b} : x[1] * y[2] < y[1] * x[2]
RAbs(a) == Only({IF x[1] < 0 THEN RNeg(x) ELSE x : x \in {a}})
RMin(a, b) == Only({IF RLt(y, x) THEN y ELSE x : x \in {a}, y \in {b}})
RMax(a, b) == Only({IF RLt(x, y) THEN y ELSE x : x \in {a}, y \in {b}})

\* cv::Point3f: <<x, y, z>>.
Vec(x, y, z) == <<x, y, z>>
VNeg(v) == Only({<<RNeg(a[1]), RNeg(a[2]), RNeg(a[3])>> : a \in {v}})
VAdd(u, v) ==
  Only({<<RAdd(a[1], b[1]), RAdd(a[2], b[2]), RAdd(a[3], b[3])>> : a \in {u}, b \in {v}})
VSub(u, v) ==
  Only({<<RSub(a[1], b[1]), RSub(a[2], b[2]), RSub(a[3], b[3])>> : a \in {u}, b \in {v}})
VScale(v, k) == Only({<<RMul(a[1], c), RMul(a[2], c), RMul(a[3], c)>> : a \in {v}, c \in {k}})
Dot(u, v) ==
  Only({RAdd(RAdd(RMul(a[1], b[1]), RMul(a[2], b[2])), RMul(a[3], b[3])) : a \in {u}, b \in {v}})

\* ----------------------------------------------------------- PlaneDetector
HORIZONTAL_THRESHOLD == <<9, 10>>
MERGE_DISTANCE == <<1, 10>>
MERGE_NORMAL_DOT == <<19, 20>>

\* Sizes of the point cloud handed to detectPlanes.
PlanePointCounts == {MIN_PLANE_POINTS - 1, 3 * MIN_PLANE_POINTS}

\* What one RANSAC run may settle on: the unit normal as the cross product
\* gives it (either orientation), the number of inliers, and the centre and
\* extent of the inlier points.  A floor seen from above with the normal
\* pointing down; a second patch of the same floor 5 cm away; a third patch
\* exactly MERGE_DISTANCE away; a ramp of 23 degrees, and through the same
\* place one of 37 degrees with its normal pointing down (14 degrees apart,
\* on either side of HORIZONTAL_THRESHOLD); a fit one inlier short.
PlaneFits ==
  {[normal |-> Vec(RInt(0), RInt(-1), RInt(0)), inliers |-> MIN_PLANE_POINTS,
    center |-> Vec(RInt(0), RInt(0), RInt(0)), width |-> RInt(1), height |-> RInt(1)],
   [normal |-> Vec(RInt(0), RInt(1), RInt(0)), inliers |-> MIN_PLANE_POINTS,
    center |-> Vec(<<1, 20>>, RInt(0), RInt(0)), width |-> RInt(2), height |-> <<1, 2>>],
   [normal |-> Vec(RInt(0), RInt(1), RInt(0)), inliers |-> MIN_PLANE_POINTS,
    center |-> Vec(<<1, 10>>, RInt(0), RInt(0)), width |-> RInt(1), height |-> RInt(1)],
   [normal |-> Vec(RInt(0), <<12, 13>>, <<5, 13>>), inliers |-> MIN_PLANE_POINTS,
    center |-> Vec(RInt(0), RInt(0), RInt(0)), width |-> RInt(1), height |-> RInt(1)],
   [normal |-> Vec(RInt(0), <<-4, 5>>, <<-3, 5>>), inliers |-> MIN_PLANE_POINTS,
    center |-> Vec(RInt(0), RInt(0), RInt(0)), width |-> RInt(1), height |-> RInt(1)],
   [normal |-> Vec(RInt(1), RInt(0), RInt(0)), inliers |-> MIN_PLANE_POINTS - 1,
    center |-> Vec(RInt(0), RInt(0), RInt(0)), width |-> RInt(1), height |-> RInt(1)]}

\* "if (bestNormal.y < 0) bestNormal = -bestNormal".
UpwardSkipped(n) == n
Upward(n) == IF RLt(n[2], RInt(0)) THEN VNeg(n) ELSE n

\* PlaneDetector::fitPlaneRANSAC on `remaining` points: no fit (fewer than
\* three points, or the best plane has fewer than MIN_PLANE_POINTS inliers),
\* or a fit with its normal turned upward.
NoFit == [inliers |-> 0]
FitPlaneRANSAC(remaining) ==
  IF remaining < 3 THEN {NoFit}
  ELSE {IF f.inliers < MIN_PLANE_POINTS THEN NoFit
        ELSE [f EXCEPT !.normal = Upward(f.normal)] :
          f \in {g \in PlaneFits : g.inliers <= remaining}}

\* PlaneDetector::isPlaneHorizontal.
IsPlaneHorizontal(normal) == RLt(HORIZONTAL_THRESHOLD, RAbs(normal[2]))

\* The DetectedPlane built at plane_detector.cpp:46-52; computePlaneBounds
\* sets center, width, height and the four corners of the rectangle of that
\* width and height around that centre.
DetectedPlane(id, f, total) ==
  [id |-> id, normal |-> f.normal, isHorizontal |-> IsPlaneHorizontal(f.normal),
   confidence |-> Rat(f.inliers, total),
   center |-> f.center, width |-> f.width, height |-> f.height,
   corners |-> [center |-> f.center, width |-> f.width, height |-> f.height]]

\* |a - b| < MERGE_DISTANCE, compared on the squares.
Closer(a, b, limit) == RLt(Dot(VSub(a, b), VSub(a, b)), RMul(limit, limit))

\* PlaneDetector::findMergeablePlane: index of the first plane of the same
\* class with |normal . normal'| >= 0.95 and centre closer than MERGE_DISTANCE;
\* 0 when there is none (the code's positions are one less).
FindMergeablePlane(ps, new) ==
  LET ok == {i \in 1..Len(ps) :
               /\ ps[i].isHorizontal = new.isHorizontal
               /\ ~RLt(RAbs(Dot(ps[i].normal, new.normal)), MERGE_NORMAL_DOT)
               /\ Closer(ps[i].center, new.center, MERGE_DISTANCE)}
  IN IF ok = {} THEN 0 ELSE CHOOSE i \in ok : \A j \in ok : i <= j

\* PlaneDetector::mergePlanes.
MergePlanesCentreSum(ps, i, new) ==
  [ps EXCEPT ![i] =
     [@ EXCEPT !.center = VAdd(@, new.center),
               !.width = RMax(@, new.width),
               !.height = RMax(@, new.height),
               !.confidence = RMin(RInt(1), RAdd(@, RMul(new.confidence, <<1, 2>>)))]]
MergePlanes(ps, i, new) ==
  [ps EXCEPT ![i] =
     [@ EXCEPT !.center = VScale(VAdd(@, new.center), <<1, 2>>),
               !.width = RMax(@, new.width),
               !.height = RMax(@, new.height),
               !.confidence = RMin(RInt(1), RAdd(@, RMul(new.confidence, <<1, 2>>)))]]

\* "nextPlaneId--" after a merge.
RollBackSkipped(next) == next
RollBack(next) == next - 1

\* The loop of detectPlanes from iteration planeCount on: the values planes
\* and nextPlaneId can have when it ends, each with the planes built at lines
\* 46-52 on the way (`plane`, before it is merged or appended), in order.
NoCandidates(ps, next) == [planes |-> ps, nextPlaneId |-> next, candidates |-> <<>>]
RECURSIVE DetectLoop(_, _, _, _, _)
DetectLoop(ps, next, remaining, total, planeCount) ==
  IF planeCount >= 3 \/ remaining < MIN_PLANE_POINTS
  THEN {NoCandidates(ps, next)}
  ELSE UNION {
         IF f.inliers < MIN_PLANE_POINTS
         THEN {NoCandidates(ps, next)}
         ELSE LET plane == DetectedPlane(next, f, total)
                  taken == PostIncrement(next)
                  mergeIdx == FindMergeablePlane(ps, plane)
                  rest == IF mergeIdx > 0
                          THEN DetectLoop(MergePlanes(ps, mergeIdx, plane), RollBack(taken),
                                          remaining - f.inliers, total, planeCount + 1)
                          ELSE DetectLoop(Append(ps, plane), taken,
                                          remaining - f.inliers, total, planeCount + 1)
              IN {[r EXCEPT !.candidates = <<plane>> \o @] : r \in rest}
         : f \in FitPlaneRANSAC(remaining)}

\* PlaneDetector::detectPlanes on `total` map points.
DetectPlanes(ps, next, total) ==
  IF total < MIN_PLANE_POINTS THEN {NoCandidates(ps, next)}
  ELSE DetectLoop(ps, next, total, total, 0)

\* ---------------------------------------------------------------- HitTester
HIT_HORIZONTAL_THRESHOLD == <<17, 20>>

\* Plane3D: unit normal <<nx, ny, nz>> and d, for n . P + d = 0.
Plane3D(n, d) == [nx |-> n[1], ny |-> n[2], nz |-> n[3], d |-> d]
DefaultGroundPlane == Plane3D(Vec(RInt(0), RInt(1), RInt(0)), RInt(0))

\* HitTestResult::HitTestResult.
HitTestResult ==
  [hit |-> FALSE, x |-> RInt(0), y |-> RInt(0), z |-> RInt(0), distance |-> RInt(0),
   planeId |-> -1, confidence |-> RInt(0)]

\* Numbers of points handed to estimateGroundPlane.
GroundPointCounts == {HIT_MIN_INLIERS - 1, HIT_MIN_INLIERS}

\* Planes HitTester::fitPlaneRANSAC may settle on, as computePlaneFromPoints
\* orients them: a floor one unit below the origin seen with the normal down,
\* a slope of 28 degrees, a slope of 37 degrees, a wall; or no plane.
GroundFits ==
  {Plane3D(Vec(RInt(0), RInt(-1), RInt(0)), RInt(-1)),
   Plane3D(Vec(RInt(0), <<-15, 17>>, <<-8, 17>>), RInt(0)),
   Plane3D(Vec(RInt(0), <<4, 5>>, <<3, 5>>), RInt(0)),
   Plane3D(Vec(RInt(1), RInt(0), RInt(0)), RInt(0))}

\* HitTester::isHorizontalPlane.
IsHorizontalPlane(pl) == RLt(HIT_HORIZONTAL_THRESHOLD, RAbs(pl.ny))

\* "if (candidatePlane.ny < 0)": all four components change sign.
FaceUpSkipped(pl) == pl
FaceUp(pl) ==
  IF RLt(pl.ny, RInt(0))
  THEN [nx |-> RNeg(pl.nx), ny |-> RNeg(pl.ny), nz |-> RNeg(pl.nz), d |-> RNeg(pl.d)]
  ELSE pl

\* ---- hitTest: matrices are flat arrays of 16 numbers, element k of the
\* code's array being element k + 1 of the sequence.
Mat4(f(_)) ==
  <<f(0), f(1), f(2), f(3), f(4), f(5), f(6), f(7),
    f(8), f(9), f(10), f(11), f(12), f(13), f(14), f(15)>>
At(m, k) == m[k + 1]
ZeroMatrix == Mat4(LAMBDA k : RInt(0))
IdentityMatrix == Mat4(LAMBDA k : IF k \in {0, 5, 10, 15} THEN RInt(1) ELSE RInt(0))

\* HitTester::createProjectionMatrix, given tan(fovY / 2).
CreateProjectionMatrix(tanHalfFov, aspect, near, far) ==
  Mat4(LAMBDA k :
    CASE k = 0 -> RDiv(RInt(1), RMul(aspect, tanHalfFov))
      [] k = 5 -> RDiv(RInt(1), tanHalfFov)
      [] k = 10 -> RNeg(RDiv(RAdd(far, near), RSub(far, near)))
      [] k = 11 -> RInt(-1)
      [] k = 14 -> RNeg(RDiv(RMul(RMul(RInt(2), far), near), RSub(far, near)))
      [] OTHER -> RInt(0))

\* The signed products "s * m[a] * m[b] * m[c]" of invertMatrix4x4: row k + 1
\* lists the six terms of inv[k].
InvTerms ==
  <<
     <<<<1, 5, 10, 15>>, <<-1, 5, 11, 14>>, <<-1, 9, 6, 15>>, <<1, 9, 7, 14>>, <<1, 13, 6, 11>>, <<-1, 13, 7, 10>>>>,
     <<<<-1, 1, 10, 15>>, <<1, 1, 11, 14>>, <<1, 9, 2, 15>>, <<-1, 9, 3, 14>>, <<-1, 13, 2, 11>>, <<1, 13, 3, 10>>>>,
     <<<<1, 1, 6, 15>>, <<-1, 1, 7, 14>>, <<-1, 5, 2, 15>>, <<1, 5, 3, 14>>, <<1, 13, 2, 7>>, <<-1, 13, 3, 6>>>>,
     <<<<-1, 1, 6, 11>>, <<1, 1, 7, 10>>, <<1, 5, 2, 11>>, <<-1, 5, 3, 10>>, <<-1, 9, 2, 7>>, <<1, 9, 3, 6>>>>,
     <<<<-1, 4, 10, 15>>, <<1, 4, 11, 14>>, <<1, 8, 6, 15>>, <<-1, 8, 7, 14>>, <<-1, 12, 6, 11>>, <<1, 12, 7, 10>>>>,
     <<<<1, 0, 10, 15>>, <<-1, 0, 11, 14>>, <<-1, 8, 2, 15>>, <<1, 8, 3, 14>>, <<1, 12, 2, 11>>, <<-1, 12, 3, 10>>>>,
     <<<<-1, 0, 6, 15>>, <<1, 0, 7, 14>>, <<1, 4, 2, 15>>, <<-1, 4, 3, 14>>, <<-1, 12, 2, 7>>, <<1, 12, 3, 6>>>>,
     <<<<1, 0, 6, 11>>, <<-1, 0, 7, 10>>, <<-1, 4, 2, 11>>, <<1, 4, 3, 10>>, <<1, 8, 2, 7>>, <<-1, 8, 3, 6>>>>,
     <<<<1, 4, 9, 15>>, <<-1, 4, 11, 13>>, <<-1, 8, 5, 15>>, <<1, 8, 7, 13>>, <<1, 12, 5, 11>>, <<-1, 12, 7, 9>>>>,
     <<<<-1, 0, 9, 15>>, <<1, 0, 11, 13>>, <<1, 8, 1, 15>>, <<-1, 8, 3, 13>>, <<-1, 12, 1, 11>>, <<1, 12, 3, 9>>>>,
     <<<<1, 0, 5, 15>>, <<-1, 0, 7, 13>>, <<-1, 4, 1, 15>>, <<1, 4, 3, 13>>, <<1, 12, 1, 7>>, <<-1, 12, 3, 5>>>>,
     <<<<-1, 0, 5, 11>>, <<1, 0, 7, 9>>, <<1, 4, 1, 11>>, <<-1, 4, 3, 9>>, <<-1, 8, 1, 7>>, <<1, 8, 3, 5>>>>,
     <<<<-1, 4, 9, 14>>, <<1, 4, 10, 13>>, <<1, 8, 5, 14>>, <<-1, 8, 6, 13>>, <<-1, 12, 5, 10>>, <<1, 12, 6, 9>>>>,
     <<<<1, 0, 9, 14>>, <<-1, 0, 10, 13>>, <<-1, 8, 1, 14>>, <<1, 8, 2, 13>>, <<1, 12, 1, 10>>, <<-1, 12, 2, 9>>>>,
     <<<<-1, 0, 5, 14>>, <<1, 0, 6, 13>>, <<1, 4, 1, 14>>, <<-1, 4, 2, 13>>, <<-1, 12, 1, 6>>, <<1, 12, 2, 5>>>>,
     <<<<1, 0, 5, 10>>, <<-1, 0, 6, 9>>, <<-1, 4, 1, 10>>, <<1, 4, 2, 9>>, <<1, 8, 1, 6>>, <<-1, 8, 2, 5>>>>
  >>

RECURSIVE SumTerms(_, _, _)
SumTerms(m, terms, n) ==
  IF n = 0 THEN RInt(0)
  ELSE LET t == terms[n]
           p == RMul(RMul(At(m, t[2]), At(m, t[3])), At(m, t[4]))
       IN RAdd(SumTerms(m, terms, n - 1), IF t[1] = 1 THEN p ELSE RNeg(p))

Adjugate(m) == Mat4(LAMBDA k : SumTerms(m, InvTerms[k + 1], 6))

\* "std::abs(det) < 1e-10f": a rational in lowest terms whose numerator and
\* denominator fit the model's integers is below 1e-10 only when it is zero.
DetTooSmall(det) == det[1] = 0

\* HitTester::invertMatrix4x4: [ok, out].
Det(m, inv) ==
  RAdd(RAdd(RMul(At(m, 0), At(inv, 0)), RMul(At(m, 1), At(inv, 4))),
       RAdd(RMul(At(m, 2), At(inv, 8)), RMul(At(m, 3), At(inv, 12))))
InvertMatrix4x4(m) ==
  Only({Only({IF DetTooSmall(det)
              THEN [ok |-> FALSE, out |-> ZeroMatrix]
              ELSE Only({[ok |-> TRUE, out |-> Mat4(LAMBDA k : RMul(At(inv, k), r))] :
                         r \in {RDiv(RInt(1), det)}}) :
              det \in {Det(m, inv)}}) :
        inv \in {Adjugate(m)}})

\* The lambda multiplyMat4Vec4 of screenToRay: out[i] = sum over j of
\* m[i + 4 j] * v[j].
MulRow(m, v, i) ==
  RAdd(RAdd(RMul(At(m, i), v[1]), RMul(At(m, i + 4), v[2])),
       RAdd(RMul(At(m, i + 8), v[3]), RMul(At(m, i + 12), v[4])))
MultiplyMat4Vec4(m, v) ==
  Only({<<MulRow(a, b, 0), MulRow(a, b, 1), MulRow(a, b, 2), MulRow(a, b, 3)>> :
        a \in {m}, b \in {v}})

EPS6 == <<1, 1000000>>

\* "Perspective divide": x, y, z are divided by w unless |w| <= 1e-6.
PerspectiveDivide(v) ==
  Only({IF RLt(EPS6, RAbs(a[4]))
        THEN <<RDiv(a[1], a[4]), RDiv(a[2], a[4]), RDiv(a[3], a[4]), a[4]>>
        ELSE a :
        a \in {v}})

\* std::sqrt, exact on the squares of rationals (the lengths the inputs of
\* HitTest below produce); rounded down in numerator and denominator otherwise.
ISqrt(n) == Only({CHOOSE k \in 0..a : k * k <= a /\ (k + 1) * (k + 1) > a : a \in {n}})
RSqrt(r) == Only({Rat(ISqrt(a[1]), ISqrt(a[2])) : a \in {r}})

Ray3D(o, d) == [ox |-> o[1], oy |-> o[2], oz |-> o[3], dx |-> d[1], dy |-> d[2], dz |-> d[3]]
DefaultRay == Ray3D(Vec(RInt(0), RInt(0), RInt(0)), Vec(RInt(0), RInt(0), RInt(-1)))

\* Steps 5 and 6 of screenToRay: a clip-space point taken to view space,
\* divided, and taken to world space with w = 1.
Unproject(invProj, invView, point) ==
  Only({MultiplyMat4Vec4(invView, <<a[1], a[2], a[3], RInt(1)>>) :
        a \in {PerspectiveDivide(MultiplyMat4Vec4(invProj, point))}})

\* Step 7 of screenToRay: the ray from nearW towards farW.
RayThrough(nearW, farW) ==
  Only({Only({Ray3D(Vec(nearW[1], nearW[2], nearW[3]),
                    IF RLt(EPS6, len)
                    THEN Vec(RDiv(d[1], len), RDiv(d[2], len), RDiv(d[3], len))
                    ELSE Vec(RInt(0), RInt(0), RInt(-1))) :
              len \in {RSqrt(Dot(d, d))}}) :
        d \in {Vec(RSub(farW[1], nearW[1]), RSub(farW[2], nearW[2]), RSub(farW[3], nearW[3]))}})

\* HitTester::screenToRay.
ScreenToRay(screenX, screenY, screenWidth, screenHeight, viewMatrix, projMatrix) ==
  Only({IF ~invProj.ok \/ ~invView.ok THEN DefaultRay
        ELSE Only({RayThrough(nearW, farW) :
                   nearW \in {Unproject(invProj.out, invView.out, <<ndcX, ndcY, RInt(-1), RInt(1)>>)},
                   farW \in {Unproject(invProj.out, invView.out, <<ndcX, ndcY, RInt(1), RInt(1)>>)}}) :
        ndcX \in {RSub(RDiv(RMul(RInt(2), screenX), RInt(screenWidth)), RInt(1))},
        ndcY \in {RSub(RInt(1), RDiv(RMul(RInt(2), screenY), RInt(screenHeight)))},
        invProj \in {InvertMatrix4x4(projMatrix)},
        invView \in {InvertMatrix4x4(viewMatrix)}})

\* The test "std::abs(nDotD) < 1e-6f" of rayPlaneIntersect.
Parallel(nDotD) == RLt(RAbs(nDotD), EPS6)

\* HitTester::rayPlaneIntersect, on the freshly constructed result of hitTest.
PointAt(r, t) ==
  [hit |-> TRUE,
   x |-> RAdd(r.ox, RMul(r.dx, t)),
   y |-> RAdd(r.oy, RMul(r.dy, t)),
   z |-> RAdd(r.oz, RMul(r.dz, t)),
   distance |-> t, planeId |-> -1, confidence |-> RInt(1)]
RayPlaneIntersect(ray, plane) ==
  Only({IF Parallel(nDotD) THEN HitTestResult
        ELSE Only({IF RLt(t, RInt(0)) THEN HitTestResult ELSE PointAt(r, t) :
                   t \in {RNeg(RDiv(RAdd(Dot(Vec(plane.nx, plane.ny, plane.nz),
                                             Vec(r.ox, r.oy, r.oz)),
                                         plane.d),
                                    nDotD))}}) :
        r \in {ray},
        nDotD \in {Dot(Vec(plane.nx, plane.ny, plane.nz), Vec(ray.dx, ray.dy, ray.dz))}})

\* ------------------------------------------------------ ImageTargetTracker
\* Keypoints ORB finds in a target image, and in a frame searched for targets.
TargetKeypoints == {TARGET_MIN_MATCHES - 1, TARGET_MIN_MATCHES, TARGET_MIN_MATCHES + 1}
TargetFrameKeypoints == {TARGET_MIN_MATCHES - 1, TARGET_MIN_MATCHES + 1}
\* Matches that pass the ratio test, for a frame that shows the target ...
TargetGoodMatches == {TARGET_MIN_MATCHES - 1, TARGET_MIN_MATCHES, TARGET_MIN_MATCHES + 1}
\* ... and for the frames of the SLAM engine's camera, which show none.
SceneGoodMatches == {TARGET_MIN_MATCHES - 1}
\* countNonZero(mask) of findHomography: the minimal sample, or around MIN_MATCHES.
HomographyInliers == {4, TARGET_MIN_MATCHES - 1, TARGET_MIN_MATCHES, TARGET_MIN_MATCHES + 1}

\* A registered target: descriptors has one row per keypoint.
ImageTarget(id, kp) == [id |-> id, keypoints |-> kp, descriptors |-> kp]

\* ImageTargetTracker::addTarget on a non-empty image with kp keypoints: the
\* id is taken (nextTargetId++) before the keypoint test; with fewer than
\* MIN_MATCHES keypoints the target is dropped and the id is spent.
AddTarget(ts, next, kp) ==
  IF kp < TARGET_MIN_MATCHES
  THEN [targets |-> ts, nextTargetId |-> next + 1, ret |-> -1]
  ELSE [targets |-> Append(ts, ImageTarget(next, kp)), nextTargetId |-> next + 1,
        ret |-> next]

\* What OpenCV reports for one target in one frame: ratio-test matches (at
\* most one per target descriptor), whether findHomography found H, its
\* inliers (a subset of the matches), isContourConvex of the projected
\* corners, and whether solvePnPRansac succeeded.
TargetGates(t, goodSet) ==
  {g \in [good : goodSet, homography : BOOLEAN, inliers : HomographyInliers,
          convex : BOOLEAN, pose : BOOLEAN] :
      g.good <= t.descriptors /\ g.inliers <= g.good}

\* cv::isContourConvex(projectedCorners).
IsContourConvexIgnored(c) == TRUE
IsContourConvex(c) == c

\* The DetectedTarget built at image_target.cpp:157-162: four projected
\* corners, confidence = inliers / goodMatches.size() kept as the pair.
DetectedTarget(t, g) ==
  [targetId |-> t.id, corners |-> [n |-> 4, convex |-> g.convex],
   confidence |-> <<g.inliers, g.good>>, isTracking |-> TRUE]

\* The body of the loop over the targets: what it appends to detectedTargets.
DetectTarget(t, g) ==
  IF t.descriptors = 0 THEN <<>>
  ELSE IF g.good < TARGET_MIN_MATCHES THEN <<>>
  ELSE IF ~g.homography THEN <<>>
  ELSE IF g.inliers < TARGET_MIN_MATCHES THEN <<>>
  ELSE IF ~IsContourConvex(g.convex) THEN <<>>
  ELSE IF ~g.pose THEN <<>>
  ELSE <<DetectedTarget(t, g)>>

\* The loop over targets[i..]: the lists it can append.
RECURSIVE DetectFrom(_, _, _)
DetectFrom(ts, i, goodSet) ==
  IF i > Len(ts) THEN {<<>>}
  ELSE {d \o rest : d \in {DetectTarget(ts[i], g) : g \in TargetGates(ts[i], goodSet)},
                    rest \in DetectFrom(ts, i + 1, goodSet)}

\* ImageTargetTracker::detectTargets on a non-empty frame with frameKp
\* keypoints: the values detectedTargets can have when it returns.
DetectTargets(ts, frameKp, goodSet) ==
  IF ts = <<>> THEN {<<>>}
  ELSE IF frameKp < TARGET_MIN_MATCHES THEN {<<>>}
  ELSE DetectFrom(ts, 1, goodSet)

\* ----------------------------------------------------------- VisualOdometry
\* Config::minInliers, the point count below which estimatePose gives up, the
\* minimum distance of a new feature from the kept ones, the maxFeatures the
\* host configures, and the size of the frames.
VO_MIN_INLIERS == 20
VO_MIN_POSE_POINTS == 8
VO_MIN_DIST == 10
VO_MAX_FEATURES == 44
ImageCols == 640
ImageRows == 480

\* FrameData::FrameData.  The view matrix and the quaternion follow from the
\* accumulated pose and are left out; the camera of the model moves along x.
FrameData0 ==
  [featurePositions |-> <<>>, featureMeta |-> <<>>, featureCount |-> 0,
   matches |-> <<>>, matchCount |-> 0, flowVectors |-> <<>>,
   pose |-> [tx |-> 0, valid |-> FALSE],
   initialized |-> FALSE, tracking |-> FALSE, frameNumber |-> 0]

\* The members extractFeatures, trackFeatures and estimatePose work on.
VoMembers ==
  [prevPoints |-> prevPoints, currPoints |-> currPoints, pointIds |-> pointIds,
   pointAges |-> pointAges, nextPointId |-> nextPointId, tTotal |-> tTotal,
   frameData |-> frameData]

\* Numbers of corners FAST finds in a frame, and the corners, strongest
\* first: a row of corners VO_MIN_DIST apart from the right edge leftwards.
FastCounts == {0, VO_MIN_INLIERS - 1, VO_MIN_INLIERS + 1, VO_MAX_FEATURES + 1}
FastKeypoints(n) == [i \in 1..n |-> <<ImageCols - VO_MIN_DIST * i, 0>>]

\* "dx * dx + dy * dy < minDist * minDist" against some kept point.
TooClose(pt, points) ==
  \E j \in 1..Len(points) :
    (pt[1] - points[j][1]) * (pt[1] - points[j][1])
      + (pt[2] - points[j][2]) * (pt[2] - points[j][2]) < VO_MIN_DIST * VO_MIN_DIST

\* The loop of extractFeatures over the detected keypoints, from keypoint i.
RECURSIVE AddKeypoints(_, _, _)
AddKeypoints(v, kps, i) ==
  IF i > Len(kps) THEN v
  ELSE IF ~TooClose(kps[i], v.currPoints) /\ Len(v.currPoints) < VO_MAX_FEATURES
  THEN AddKeypoints([v EXCEPT !.currPoints = Append(@, kps[i]),
                              !.pointIds = Append(@, v.nextPointId),
                              !.pointAges = Append(@, 0),
                              !.nextPointId = @ + 1],
                    kps, i + 1)
  ELSE AddKeypoints(v, kps, i + 1)

\* VisualOdometry::extractFeatures on a frame with n corners: the list is cut
\* to maxFeatures, the tracked points are kept, new ones are appended.
ExtractFeatures(v, n) == AddKeypoints(v, FastKeypoints(Min(n, VO_MAX_FEATURES)), 1)

\* What calcOpticalFlowPyrLK reports for point i of n: where it went, and
\* whether it was found.
FlowPatterns == {"still", "right", "odd"}
StatusPatterns == {"all", "butFirst", "few", "none"}
FlowOf(flow, i) ==
  CASE flow = "still" -> <<0, 0>>
    [] flow = "right" -> <<VO_MIN_DIST, 0>>
    [] flow = "odd" -> IF i % 2 = 1 THEN <<VO_MIN_DIST, 0>> ELSE <<0, 0>>
StatusOf(status, i) ==
  CASE status = "all" -> TRUE
    [] status = "butFirst" -> i > 1
    [] status = "few" -> i < VO_MIN_INLIERS
    [] status = "none" -> FALSE
NextPoint(pt, flow, i) == <<pt[1] + FlowOf(flow, i)[1], pt[2] + FlowOf(flow, i)[2]>>
InImage(pt) == pt[1] >= 0 /\ pt[1] < ImageCols /\ pt[2] >= 0 /\ pt[2] < ImageRows

\* The indices trackFeatures keeps: found, and inside the image.
RECURSIVE GoodFrom(_, _, _, _)
GoodFrom(points, flow, status, i) ==
  IF i > Len(points) THEN <<>>
  ELSE (IF StatusOf(status, i) /\ InImage(NextPoint(points[i], flow, i)) THEN <<i>> ELSE <<>>)
       \o GoodFrom(points, flow, status, i + 1)

\* A list of pairs as the flat list of their components.
RECURSIVE Flat(_)
Flat(pairs) == IF pairs = <<>> THEN <<>> ELSE <<pairs[1][1], pairs[1][2]>> \o Flat(Tail(pairs))

\* VisualOdometry::trackFeatures (prevGray is empty before the first frame).
TrackFeatures(v, gray0, flow, status) ==
  IF v.prevPoints = <<>> \/ gray0 = 0 THEN v
  ELSE Only({
    [v EXCEPT
       !.prevPoints = [k \in 1..Len(good) |-> v.prevPoints[good[k]]],
       !.currPoints = [k \in 1..Len(good) |-> NextPoint(v.prevPoints[good[k]], flow, good[k])],
       !.pointIds = [k \in 1..Len(good) |-> v.pointIds[good[k]]],
       !.pointAges = [k \in 1..Len(good) |-> v.pointAges[good[k]] + 1],
       !.frameData =
          [@ EXCEPT
             !.flowVectors = Flat([k \in 1..Len(good) |-> FlowOf(flow, good[k])]),
             !.matches = Flat([k \in 1..Len(good) |-> <<k - 1, k - 1>>]),
             !.matchCount = Len(good)]] :
    good \in {GoodFrom(v.prevPoints, flow, status, 1)}})

\* What findEssentialMat and recoverPose report: no matrix, or the inlier
\* mask (every point, every point but the first, no point).
RansacPatterns == {"empty", "all", "butFirst", "none"}
MaskOf(ransac, i) ==
  CASE ransac = "all" -> TRUE
    [] ransac = "butFirst" -> i > 1
    [] OTHER -> FALSE
Inliers(n, ransac) == SelectSeq([i \in 1..n |-> i], LAMBDA i : MaskOf(ransac, i))

\* VisualOdometry::estimatePose: [ok, v].
EstimatePose(v, ransac) ==
  IF Len(v.prevPoints) < VO_MIN_POSE_POINTS \/ Len(v.currPoints) < VO_MIN_POSE_POINTS
  THEN [ok |-> FALSE, v |-> v]
  ELSE IF ransac = "empty" THEN [ok |-> FALSE, v |-> v]
  ELSE Only({
    IF Len(in) < VO_MIN_INLIERS THEN [ok |-> FALSE, v |-> v]
    ELSE [ok |-> TRUE,
          v |-> [v EXCEPT
                   !.prevPoints = [k \in 1..Len(in) |-> v.prevPoints[in[k]]],
                   !.currPoints = [k \in 1..Len(in) |-> v.currPoints[in[k]]],
                   !.pointIds = [k \in 1..Len(in) |-> v.pointIds[in[k]]],
                   !.pointAges = [k \in 1..Len(in) |-> v.pointAges[in[k]]],
                   !.tTotal = @ + 1,
                   !.frameData = [@ EXCEPT !.pose = [tx |-> v.tTotal + 1, valid |-> TRUE]]]] :
    in \in {Inliers(Len(v.prevPoints), ransac)}})

\* VisualOdometry::updateFrameData.
UpdateFrameData(v) ==
  [v EXCEPT
     !.frameData =
        [@ EXCEPT
           !.featurePositions = Flat(v.currPoints),
           !.featureMeta =
              [k \in 1..(4 * Len(v.currPoints)) |->
                 CASE k % 4 = 1 -> 7
                   [] k % 4 = 2 -> 1
                   [] k % 4 = 3 -> v.pointIds[(k + 3) \div 4]
                   [] OTHER -> v.pointAges[(k + 3) \div 4]],
           !.featureCount = Len(v.currPoints)]]

\* The branches of processFrame between frameCount++ and updateFrameData.
FirstFrames(v, n) ==
  Only({[x EXCEPT !.prevPoints = x.currPoints,
                  !.frameData = [@ EXCEPT !.initialized =
                                    @ \/ Len(x.currPoints) >= VO_MIN_INLIERS]] :
        x \in {ExtractFeatures(v, n)}})
LaterFrames(v, gray0, n, flow, status, ransac) ==
  Only({Only({Only({[z EXCEPT !.prevPoints = z.currPoints] :
                    z \in {IF Len(y.v.currPoints) < VO_MAX_FEATURES \div 2
                           THEN ExtractFeatures(y.v, n) ELSE y.v}}) :
              y \in {IF Len(x.currPoints) >= VO_MIN_INLIERS
                     THEN Only({[ok |-> e.ok,
                                 v |-> [e.v EXCEPT !.frameData = [@ EXCEPT !.tracking = e.ok]]] :
                                e \in {EstimatePose(x, ransac)}})
                     ELSE [ok |-> FALSE,
                           v |-> [x EXCEPT !.frameData = [@ EXCEPT !.tracking = FALSE]]]}}) :
        x \in {TrackFeatures(v, gray0, flow, status)}})

\* ------------------------------------------------------------------- Init
Init ==
  /\ initialized = FALSE
  /\ tracking = FALSE
  /\ frameCount = 0
  /\ nextMapPointId = 0
  /\ nextKeyFrameId = 0
  /\ currentPose = IdentityPose
  /\ mapPoints = [id \in {} |-> id]
  /\ keyframes = <<>>
  /\ prevFrame = NoFrame
  /\ prevKeypoints = NoKeypoints
  /\ prevDescriptors = NoKeypoints
  /\ targets = <<>>
  /\ detectedTargets = <<>>
  /\ nextTargetId = 0
  /\ planes = <<>>
  /\ nextPlaneId = 0
  /\ planeRuns = 0
  /\ planeCandidates = <<>>
  /\ groundPlane = DefaultGroundPlane
  /\ hasValidPlane = TRUE
  /\ hitResult = HitTestResult
  /\ targetRan = FALSE
  /\ planeRan = FALSE
  /\ lastRet = FALSE
  /\ lastPath = "none"
  /\ lastBufOk = TRUE
  /\ allLow = TRUE
  /\ lastArray = <<>>
  /\ voInitialized = FALSE
  /\ voFrameCount = 0
  /\ prevGray = 0
  /\ prevPoints = <<>>
  /\ currPoints = <<>>
  /\ pointIds = <<>>
  /\ pointAges = <<>>
  /\ nextPointId = 0
  /\ tTotal = 0
  /\ frameData = FrameData0
  /\ ransacOf = "none"
  /\ ransacStatus = "idle"
  /\ iter = 0
  /\ sample = <<>>
  /\ bestInlierCount = 0
  /\ loopRan = FALSE
  /\ loopCounts = <<>>
  /\ bestMatch = -1

\* ------------------------------------------------- ARTracker.processFrame
\* ARTrackerWrapper::processFrame -> imageDataToMat -> ARTracker::processFrame
\* -> SLAMSystem::processFrame.  The wrapper never compares the buffer length
\* with width * height * 4: the engine receives a width x height frame whatever
\* the length was.  frameCount++ precedes the dispatch.
CallUpTo(limit, bufOk, n) ==
  /\ frameCount < limit
  /\ frameCount' = frameCount + 1
  /\ lastBufOk' = bufOk
  /\ allLow' = (allLow /\ n < MIN_INIT_MATCHES)
  /\ UNCHANGED <<lastArray, voState, ransacState, loopState>>
Call(bufOk, n) == CallUpTo(MaxFrames, bufOk, n)

\* The features extracted from the frame being processed.
Features(n) == [frame |-> ThisFrame, n |-> n]

\* The cached previous frame as this call sees it.
PrevFrame == Older(prevFrame)
PrevKeypoints == OlderKeypoints(prevKeypoints)
PrevDescriptors == OlderKeypoints(prevDescriptors)

\* prevFrame = frame.clone(); prevKeypoints = keypoints; prevDescriptors = ...
CachePrev(n) ==
  /\ prevFrame' = ThisFrame
  /\ prevKeypoints' = Features(n)
  /\ prevDescriptors' = Features(n)

\* The cached frame is left as it is.
KeepPrev ==
  /\ prevFrame' = PrevFrame
  /\ prevKeypoints' = PrevKeypoints
  /\ prevDescriptors' = PrevDescriptors

NoCvRun ==
  /\ targetRan' = FALSE /\ planeRan' = FALSE
  /\ UNCHANGED <<targetState, planeState, hitState>>

\* SLAMSystem::initialize, keypoints.size() < MIN_INIT_MATCHES.
TooFewInitFeaturesLax(n) == n < MIN_TRACKING_MATCHES
TooFewInitFeatures(n) == n < MIN_INIT_MATCHES

InitFewFeatures(n) ==
  /\ ~initialized
  /\ TooFewInitFeatures(n)
  /\ KeepPrev
  /\ lastRet' = FALSE
  /\ lastPath' = "init_few_features"
  /\ NoCvRun
  /\ UNCHANGED <<initialized, tracking, nextMapPointId, nextKeyFrameId, currentPose,
                 mapPoints, keyframes>>

\* SLAMSystem::initialize, prevFrame.empty(): the first view is cached.
InitFirstFrameEager(n) ==
  /\ ~initialized
  /\ ~TooFewInitFeatures(n)
  /\ prevFrame = NoFrame
  /\ CachePrev(n)
  /\ initialized' = TRUE
  /\ lastRet' = TRUE
  /\ lastPath' = "init_first_frame"
  /\ NoCvRun
  /\ UNCHANGED <<tracking, nextMapPointId, nextKeyFrameId, currentPose,
                 mapPoints, keyframes>>
InitFirstFrame(n) ==
  /\ ~initialized
  /\ ~TooFewInitFeatures(n)
  /\ prevFrame = NoFrame
  /\ CachePrev(n)
  /\ lastRet' = TRUE
  /\ lastPath' = "init_first_frame"
  /\ NoCvRun
  /\ UNCHANGED <<initialized, tracking, nextMapPointId, nextKeyFrameId, currentPose,
                 mapPoints, keyframes>>

\* matcher->match(prevDescriptors, descriptors): cross-checked, so at most
\* min(rows) matches; none when either side is empty.
FrameMatchCounts(S, n) ==
  IF prevDescriptors.n > 0 /\ n > 0 THEN AtMost(S, Min(prevDescriptors.n, n)) ELSE {0}

InitMatchCounts(n) == FrameMatchCounts({MIN_INIT_MATCHES - 1, MIN_INIT_MATCHES}, n)
GoodMatchCounts == {MIN_INIT_MATCHES \div 2 - 1, MIN_INIT_MATCHES \div 2}
InlierCounts == {MIN_INIT_INLIERS - 1, MIN_INIT_INLIERS}

SecondView(n) == ~initialized /\ ~TooFewInitFeatures(n) /\ prevFrame # NoFrame

\* matches.size() < MIN_INIT_MATCHES: the new frame replaces the cached one.
InitFewMatches(n) ==
  /\ SecondView(n)
  /\ \E m \in InitMatchCounts(n) : m < MIN_INIT_MATCHES
  /\ CachePrev(n)
  /\ lastRet' = FALSE
  /\ lastPath' = "init_few_matches"
  /\ NoCvRun
  /\ UNCHANGED <<initialized, tracking, nextMapPointId, nextKeyFrameId, currentPose,
                 mapPoints, keyframes>>

\* The three later failure returns of initialize (too few good matches, empty
\* essential matrix, too few recoverPose inliers): return false, nothing else.
InitLateFailure(n) ==
  /\ SecondView(n)
  /\ \E m \in InitMatchCounts(n), good \in GoodMatchCounts, emptyE \in BOOLEAN,
        inliers \in InlierCounts :
       /\ m >= MIN_INIT_MATCHES
       /\ good <= m /\ inliers <= good
       /\ \/ /\ good < MIN_INIT_MATCHES \div 2
             /\ lastPath' = "init_few_good_matches"
          \/ /\ good >= MIN_INIT_MATCHES \div 2 /\ emptyE
             /\ lastPath' = "init_empty_essential"
          \/ /\ good >= MIN_INIT_MATCHES \div 2 /\ ~emptyE
             /\ inliers < MIN_INIT_INLIERS
             /\ lastPath' = "init_few_inliers"
  /\ KeepPrev
  /\ lastRet' = FALSE
  /\ NoCvRun
  /\ UNCHANGED <<initialized, tracking, nextMapPointId, nextKeyFrameId, currentPose,
                 mapPoints, keyframes>>

\* Two-view initialization succeeds: KF0 from the cached frame at the identity,
\* KF1 from the new frame at [R|t], triangulation between them.
InitSuccess(n) ==
  /\ SecondView(n)
  /\ \E m \in InitMatchCounts(n), good \in GoodMatchCounts, inliers \in InlierCounts :
       /\ m >= MIN_INIT_MATCHES
       /\ good <= m /\ good >= MIN_INIT_MATCHES \div 2
       /\ inliers <= good /\ inliers >= MIN_INIT_INLIERS
  /\ \E t \in DeltaTranslations :
       LET id1 == nextKeyFrameId
           id2 == PostIncrement(id1)
           kf1 == KeyFrame(id1, PrevFrame, IdentityPose, PrevKeypoints, PrevDescriptors)
           pose2 == [t |-> t]
           kf2 == KeyFrame(id2, ThisFrame, pose2, Features(n), Features(n))
       IN \E c \in TriChoices(kf1, kf2) :
            LET r == TriangulateNewPoints(mapPoints, nextMapPointId, kf1, kf2,
                                          TriPairs(c[1], c[2]))
            IN /\ keyframes' = keyframes \o <<r.kf1, r.kf2>>
               /\ nextKeyFrameId' = PostIncrement(id2)
               /\ mapPoints' = r.mapPoints
               /\ nextMapPointId' = r.next
               /\ currentPose' = pose2
  /\ CachePrev(n)
  /\ initialized' = TRUE
  /\ tracking' = TRUE
  /\ lastRet' = TRUE
  /\ lastPath' = "init_success"
  /\ NoCvRun

Initialize(n) ==
  \/ InitFewFeatures(n)
  \/ InitFirstFrame(n)
  \/ InitFewMatches(n)
  \/ InitLateFailure(n)
  \/ InitSuccess(n)

\* ------------------------------------------------------ SLAMSystem::track
\* The two early returns of track (too few keypoints; too few map matches and
\* too few frame-to-frame matches): tracking = false, return false.  Nothing
\* else is touched: no keyframe check, no plane or target detection, and the
\* cached previous frame stays.
TrackingLostWipesMap ==
  /\ tracking' = FALSE
  /\ lastRet' = FALSE
  /\ NoCvRun
  /\ KeepPrev
  /\ mapPoints' = [id \in DOMAIN mapPoints |-> [mapPoints[id] EXCEPT !.isBad = TRUE]]
  /\ UNCHANGED <<initialized, nextMapPointId, nextKeyFrameId, currentPose, keyframes>>
TrackingLost ==
  /\ tracking' = FALSE
  /\ lastRet' = FALSE
  /\ NoCvRun
  /\ KeepPrev
  /\ UNCHANGED <<initialized, nextMapPointId, nextKeyFrameId, currentPose, mapPoints,
                 keyframes>>

TrackFewFeatures(n) ==
  /\ initialized
  /\ n < MIN_TRACKING_MATCHES
  /\ lastPath' = "track_few_features"
  /\ TrackingLost

\* SLAMSystem::matchWithMap: cross-checked matches of the non-bad map points
\* against the frame, kept when distance < 50.
MapMatchCounts(n) ==
  IF DOMAIN mapPoints = {} \/ n = 0 \/ NonBad(mapPoints) = {} THEN {0}
  ELSE AtMost({MIN_TRACKING_MATCHES - 1, MIN_TRACKING_MATCHES},
              Min(Cardinality(NonBad(mapPoints)), n))

TrackMatchCounts(n) ==
  FrameMatchCounts({MIN_TRACKING_MATCHES - 1, MIN_TRACKING_MATCHES}, n)

TrackFewMatches(n) ==
  /\ initialized
  /\ n >= MIN_TRACKING_MATCHES
  /\ \E mm \in MapMatchCounts(n) : mm < MIN_TRACKING_MATCHES
  /\ \E fm \in TrackMatchCounts(n) : fm < MIN_TRACKING_MATCHES
  /\ lastPath' = "track_few_matches"
  /\ TrackingLost

\* SLAMSystem::createKeyFrame(frame) as track calls it: the keyframe takes the
\* image of the frame being processed and currentPose, and the keypoints and
\* descriptors of the members prevKeypoints / prevDescriptors; then
\* triangulation against the previous keyframe, then (more than ten
\* keyframes) detectLoopClosure, whose localBundleAdjustment changes nothing.
CreateKeyFrame(pose, c) ==
  LET kf == KeyFrame(nextKeyFrameId, ThisFrame, pose, PrevKeypoints, PrevDescriptors)
      kfs == keyframes \o <<kf>>
      len == Len(kfs)
  IN IF len >= 2
     THEN LET r == TriangulateNewPoints(mapPoints, nextMapPointId, kfs[len - 1], kf,
                                        TriPairs(c[1], c[2]))
          IN [keyframes |-> [kfs EXCEPT ![len - 1] = r.kf1, ![len] = r.kf2],
              nextKeyFrameId |-> PostIncrement(nextKeyFrameId),
              mapPoints |-> r.mapPoints, nextMapPointId |-> r.next]
     ELSE [keyframes |-> kfs, nextKeyFrameId |-> PostIncrement(nextKeyFrameId),
           mapPoints |-> mapPoints, nextMapPointId |-> nextMapPointId]

\* What the triangulation of createKeyFrame can be left with: nothing to
\* triangulate against when the new keyframe is the only one.
KeyFrameTriChoices ==
  IF keyframes = <<>> THEN {<<0, 0>>}
  ELSE TriChoices(Last(keyframes), [descriptors |-> PrevDescriptors])

\* track from the keyframe check (line 226) to its return: trk and pose are
\* tracking and currentPose as the pose estimation left them.
TrackTail(n, trk, pose) ==
  /\ tracking' = trk
  /\ currentPose' = pose
  /\ IF trk /\ NeedNewKeyFrame(keyframes, frameCount + 1, pose)
     THEN \E c \in KeyFrameTriChoices :
            LET r == CreateKeyFrame(pose, c)
            IN /\ keyframes' = r.keyframes
               /\ nextKeyFrameId' = r.nextKeyFrameId
               /\ mapPoints' = r.mapPoints
               /\ nextMapPointId' = r.nextMapPointId
     ELSE UNCHANGED <<keyframes, nextKeyFrameId, mapPoints, nextMapPointId>>
  /\ planeRan' = (Cardinality(DOMAIN mapPoints') >= PLANE_MIN_MAP_POINTS
                  /\ (frameCount + 1) % PLANE_INTERVAL = 0)
  /\ IF planeRan'
     THEN /\ \E r \in DetectPlanes(planes, nextPlaneId, Cardinality(NonBad(mapPoints'))) :
               /\ planes' = r.planes /\ nextPlaneId' = r.nextPlaneId
               /\ planeCandidates' = r.candidates
          /\ planeRuns' = planeRuns + 1
     ELSE UNCHANGED planeState
  /\ targetRan' = (Len(targets) > 0 /\ (frameCount + 1) % TARGET_INTERVAL = 0)
  /\ IF targetRan'
     THEN detectedTargets' \in DetectTargets(targets, n, SceneGoodMatches)
     ELSE UNCHANGED detectedTargets
  /\ CachePrev(n)
  /\ lastRet' = trk
  /\ UNCHANGED <<initialized, targets, nextTargetId, hitState>>

\* Frame-to-frame fallback: fewer than MIN_TRACKING_MATCHES map matches, enough
\* matches against the previous frame.  With a non-empty essential matrix the
\* delta is post-multiplied onto currentPose and tracking is set; with an
\* empty one neither currentPose nor tracking is written.
TrackFallback(n) ==
  /\ initialized
  /\ n >= MIN_TRACKING_MATCHES
  /\ \E mm \in MapMatchCounts(n) : mm < MIN_TRACKING_MATCHES
  /\ \E fm \in TrackMatchCounts(n) : fm >= MIN_TRACKING_MATCHES
  /\ \E emptyE \in BOOLEAN :
       IF emptyE
       THEN /\ lastPath' = "track_fallback_empty_essential"
            /\ TrackTail(n, tracking, currentPose)
       ELSE \E dt \in DeltaTranslations :
              /\ currentPose.t + dt <= MaxPoseSteps * UnitT
              /\ lastPath' = "track_fallback"
              /\ TrackTail(n, TRUE, [t |-> currentPose.t + dt])

\* Map tracking: at least MIN_TRACKING_MATCHES map matches, each of a stored
\* non-bad map point, so worldPoints.size() >= MIN_PNP_POINTS and
\* estimatePosePnP runs; tracking = its result, currentPose written on success.
TrackPnP(n) ==
  /\ initialized
  /\ n >= MIN_TRACKING_MATCHES
  /\ \E mm \in MapMatchCounts(n) :
       /\ mm >= MIN_TRACKING_MATCHES
       /\ mm >= MIN_PNP_POINTS
  /\ \E success \in BOOLEAN :
       IF success
       THEN \E t \in PnPTranslations :
              /\ lastPath' = "track_pnp"
              /\ TrackTail(n, TRUE, [t |-> t])
       ELSE /\ lastPath' = "track_pnp_failed"
            /\ TrackTail(n, FALSE, currentPose)

Track(n) ==
  \/ TrackFewFeatures(n)
  \/ TrackFewMatches(n)
  \/ TrackFallback(n)
  \/ TrackPnP(n)

\* A call whose buffer has the declared size.
ProcessFrame ==
  \E n \in FeatureCounts :
    /\ Call(TRUE, n)
    /\ \/ Initialize(n)
       \/ Track(n)

\* ARTrackerWrapper::addImageTarget -> ImageTargetTracker::addTarget: the
\* target is registered when its image yields at least MIN_MATCHES keypoints.
AddImageTarget ==
  /\ nextTargetId < MaxTargets
  /\ \E kp \in {TARGET_MIN_MATCHES - 1, TARGET_MIN_MATCHES} :
       LET r == AddTarget(targets, nextTargetId, kp)
       IN /\ targets' = r.targets
          /\ nextTargetId' = r.nextTargetId
  /\ UNCHANGED <<slamState, detectedTargets, targetRan, planeRan, planeState, hitState,
                 callState, voState, ransacState, loopState>>

Next ==
  \/ ProcessFrame
  \/ AddImageTarget

Spec == Init /\ [][Next]_vars

\* ------------------------------------------------------------- a long run
\* The engine fed frame after frame up to the first frame whose number is a
\* multiple of PLANE_INTERVAL, each frame poor or rich in features.
LongFeatureCounts == {MIN_TRACKING_MATCHES - 1, MIN_INIT_MATCHES + PLANE_MIN_MAP_POINTS}

LongProcessFrame ==
  \E n \in LongFeatureCounts :
    /\ CallUpTo(MaxLongFrames, TRUE, n)
    /\ \/ Initialize(n)
       \/ Track(n)

NextLong == LongProcessFrame

SpecLong == Init /\ [][NextLong]_vars

\* ------------------------------------------------------- the host's view
\* The embind class ARTracker as a host may drive it: processFrame with a
\* buffer of any length, addImageTarget, and a request to reset.

\* processFrame with a buffer of the declared size, four bytes short, or
\* four bytes long.  imageDataToMat wraps buffer.data() as a height x width
\* CV_8UC4 matrix without looking at buffer.size(): a long buffer is cut, a
\* short one is read past its end, and the frame goes to the engine.
ProcessFrameAnyBuffer ==
  \E d \in FrameDims :
    \E len \in BufLens(d[1], d[2]), n \in FeatureCounts :
      /\ Call(len = d[1] * d[2] * 4, n)
      /\ \/ Initialize(n)
         \/ Track(n)

\* The other outcome of reading a short buffer past its end: the read leaves
\* the memory of the module and the call traps before the engine is entered.
\* No value is returned.
ProcessFrameFault ==
  /\ frameCount < MaxFrames
  /\ \E d \in FrameDims : \E len \in BufLens(d[1], d[2]) : len < d[1] * d[2] * 4
  /\ lastBufOk' = FALSE
  /\ lastPath' = "fault"
  /\ UNCHANGED <<slamState, cvState, lastRet, allLow, lastArray, voState, ransacState, loopState>>

\* A host asks the SLAM facade to reset.  ARTrackerWrapper binds no reset, and
\* neither ARTracker nor SLAMSystem defines one: the request reaches no code
\* of the engine, whose state stays as it is.
ResetRequest ==
  /\ lastPath # "reset"
  /\ lastPath' = "reset"
  /\ UNCHANGED <<slamState, cvState, lastRet, lastBufOk, allLow, lastArray, voState,
                 ransacState, loopState>>

NextHost ==
  \/ ProcessFrameAnyBuffer
  \/ ProcessFrameFault
  \/ AddImageTarget
  \/ ResetRequest

SpecHost == Init /\ [][NextHost]_vars

\* ------------------------------------------------- the matrices handed over
\* A 4 x 4 cv::Mat of doubles: rows of columns, mat.at<double>(i, j) being
\* mat[i + 1][j + 1].
MatAt(mat, i, j) == mat[i + 1][j + 1]
Mat44(f(_, _)) ==
  <<<<f(0, 0), f(0, 1), f(0, 2), f(0, 3)>>,
    <<f(1, 0), f(1, 1), f(1, 2), f(1, 3)>>,
    <<f(2, 0), f(2, 1), f(2, 2), f(2, 3)>>,
    <<f(3, 0), f(3, 1), f(3, 2), f(3, 3)>>>>

\* currentPose as the matrix it is: the identity rotation and the translation
\* in column 3 (the pose of the model moves along x).
PoseMat(pose) ==
  Mat44(LAMBDA i, j : IF i = j THEN RInt(1)
                      ELSE IF i = 0 /\ j = 3 THEN Rat(pose.t, UnitT)
                      ELSE RInt(0))

\* SLAMSystem::getViewMatrix: currentPose.inv(); the inverse of a translation
\* is the opposite translation.
ViewMat(pose) == PoseMat([t |-> 0 - pose.t])

\* ARTracker::getProjectionMatrix, with fx = fy = 500, cx = 320, cy = 240.
CameraFx == 500
CameraFy == 500
CameraCx == 320
CameraCy == 240
ProjNear == <<1, 100>>
ProjFar == RInt(1000)
ProjectionMat(width, height) ==
  Mat44(LAMBDA i, j :
    CASE i = 0 /\ j = 0 -> RDiv(RMul(RInt(2), RInt(CameraFx)), RInt(width))
      [] i = 1 /\ j = 1 -> RDiv(RMul(RInt(2), RInt(CameraFy)), RInt(height))
      [] i = 0 /\ j = 2 -> RSub(RInt(1), RDiv(RMul(RInt(2), RInt(CameraCx)), RInt(width)))
      [] i = 1 /\ j = 2 -> RSub(RDiv(RMul(RInt(2), RInt(CameraCy)), RInt(height)), RInt(1))
      [] i = 2 /\ j = 2 -> RNeg(RDiv(RAdd(ProjFar, ProjNear), RSub(ProjFar, ProjNear)))
      [] i = 2 /\ j = 3 -> RDiv(RMul(RMul(RInt(-2), ProjFar), ProjNear), RSub(ProjFar, ProjNear))
      [] i = 3 /\ j = 2 -> RInt(-1)
      [] OTHER -> RInt(0))

\* matToArray: the rows are pushed one after another, each from column 0 on.
MatToArray(mat) ==
  <<MatAt(mat, 0, 0), MatAt(mat, 0, 1), MatAt(mat, 0, 2), MatAt(mat, 0, 3),
    MatAt(mat, 1, 0), MatAt(mat, 1, 1), MatAt(mat, 1, 2), MatAt(mat, 1, 3),
    MatAt(mat, 2, 0), MatAt(mat, 2, 1), MatAt(mat, 2, 2), MatAt(mat, 2, 3),
    MatAt(mat, 3, 0), MatAt(mat, 3, 1), MatAt(mat, 3, 2), MatAt(mat, 3, 3)>>

\* Sizes asked of getProjectionMatrix.
ProjectionDims == {<<640, 480>>, <<1280, 720>>}

NotEngine ==
  UNCHANGED <<slamState, cvState, lastRet, lastPath, lastBufOk, allLow, voState, ransacState, loopState>>

\* ARTrackerWrapper::getViewMatrix.
GetViewMatrix ==
  /\ lastArray' = MatToArray(ViewMat(currentPose))
  /\ NotEngine

\* ARTrackerWrapper::getProjectionMatrix.
GetProjectionMatrixOf(width, height) ==
  /\ lastArray' = MatToArray(ProjectionMat(width, height))
  /\ NotEngine

GetProjectionMatrix == \E d \in ProjectionDims : GetProjectionMatrixOf(d[1], d[2])

NextMatrices ==
  \/ ProcessFrame
  \/ GetViewMatrix
  \/ GetProjectionMatrix

SpecMatrices == Init /\ [][NextMatrices]_vars

\* ------------------------------------------------- VisualOdometry alone
NotVo == UNCHANGED <<slamState, cvState, callState, ransacState, loopState>>

\* VisualOdometry::processFrame on a frame that is or is not a non-empty
\* 8-bit gray image.
VoProcessFrame ==
  /\ voFrameCount < MaxVoFrames
  /\ \E valid \in BOOLEAN, n \in FastCounts, flow \in FlowPatterns,
        status \in StatusPatterns, ransac \in RansacPatterns :
       IF ~valid THEN UNCHANGED voState
       ELSE \E v \in {UpdateFrameData(
                         IF ~voInitialized THEN FirstFrames(VoMembers, n)
                         ELSE LaterFrames(VoMembers, prevGray, n, flow, status, ransac))} :
              /\ voFrameCount' = voFrameCount + 1
              /\ voInitialized' = v.frameData.initialized
              /\ prevGray' = voFrameCount'
              /\ prevPoints' = v.prevPoints
              /\ currPoints' = v.currPoints
              /\ pointIds' = v.pointIds
              /\ pointAges' = v.pointAges
              /\ nextPointId' = v.nextPointId
              /\ tTotal' = v.tTotal
              /\ frameData' = [v.frameData EXCEPT !.frameNumber = voFrameCount']
  /\ NotVo

\* VisualOdometry::reset.
VoReset ==
  /\ voInitialized' = FALSE
  /\ voFrameCount' = 0
  /\ prevGray' = 0
  /\ prevPoints' = <<>>
  /\ currPoints' = <<>>
  /\ pointIds' = <<>>
  /\ pointAges' = <<>>
  /\ nextPointId' = 0
  /\ tTotal' = 0
  /\ frameData' = FrameData0
  /\ NotVo

NextVO ==
  \/ VoProcessFrame
  \/ VoReset

SpecVO == Init /\ [][NextVO]_vars

\* ------------------------------------------------ ImageTargetTracker alone
\* The public methods of ImageTargetTracker, called in any order.
NotSlam == UNCHANGED <<slamState, targetRan, planeRan, callState, voState, ransacState, loopState>>

TargetAdd ==
  /\ nextTargetId < MaxRegistered
  /\ \E kp \in TargetKeypoints :
       LET r == AddTarget(targets, nextTargetId, kp)
       IN /\ targets' = r.targets
          /\ nextTargetId' = r.nextTargetId
  /\ UNCHANGED <<detectedTargets, planeState, hitState>>
  /\ NotSlam

TargetDetect ==
  /\ \E kp \in TargetFrameKeypoints :
       detectedTargets' \in DetectTargets(targets, kp, TargetGoodMatches)
  /\ UNCHANGED <<targets, nextTargetId, planeState, hitState>>
  /\ NotSlam

\* removeTarget(targetId): erases the targets of that id, nothing else.
TargetRemove ==
  /\ \E id \in 0..(MaxRegistered - 1) :
       targets' = SelectSeq(targets, LAMBDA t : t.id # id)
  /\ UNCHANGED <<detectedTargets, nextTargetId, planeState, hitState>>
  /\ NotSlam

TargetClear ==
  /\ targets' = <<>>
  /\ detectedTargets' = <<>>
  /\ nextTargetId' = 0
  /\ UNCHANGED <<planeState, hitState>>
  /\ NotSlam

NextTargets ==
  \/ TargetAdd
  \/ TargetDetect
  \/ TargetRemove
  \/ TargetClear

SpecTargets == Init /\ [][NextTargets]_vars

\* ------------------------------------------- PlaneDetector and HitTester
\* detectPlanes on a cloud of any size; the HitTester's two ways to install a
\* ground plane.
NotTargets ==
  UNCHANGED <<targetState, slamState, targetRan, planeRan, callState, voState, ransacState, loopState>>

PlaneDetect ==
  /\ planeRuns < MaxDetections
  /\ planeRuns' = planeRuns + 1
  /\ \E total \in PlanePointCounts :
       \E r \in DetectPlanes(planes, nextPlaneId, total) :
         /\ planes' = r.planes /\ nextPlaneId' = r.nextPlaneId
         /\ planeCandidates' = r.candidates
  /\ UNCHANGED hitState
  /\ NotTargets

SetDefaultGroundPlane ==
  /\ groundPlane' = DefaultGroundPlane
  /\ hasValidPlane' = TRUE
  /\ UNCHANGED <<hitResult, planeState>>
  /\ NotTargets

\* estimateGroundPlane: too few points, no fit, or a fit that is not
\* horizontal leave the ground plane as it is; otherwise the fit, turned
\* upward, replaces it.
EstimateGroundPlane ==
  /\ \E count \in GroundPointCounts, fitted \in BOOLEAN, pl \in GroundFits :
       IF count < HIT_MIN_INLIERS \/ ~fitted \/ ~IsHorizontalPlane(pl)
       THEN UNCHANGED <<groundPlane, hasValidPlane>>
       ELSE /\ groundPlane' = FaceUp(pl)
            /\ hasValidPlane' = TRUE
  /\ UNCHANGED <<hitResult, planeState>>
  /\ NotTargets

NextPlanes ==
  \/ PlaneDetect
  \/ SetDefaultGroundPlane
  \/ EstimateGroundPlane

SpecPlanes == Init /\ [][NextPlanes]_vars

\* ------------------------------------------------------- HitTester alone
\* The screen of the hit tests and the pixels tapped: the centre, and pixels
\* whose rays have rational length under StandardProjection.
ScreenWidth == 640
ScreenHeight == 480
ScreenPixels ==
  {<<320, 240>>, <<320, 60>>, <<320, 420>>, <<500, 240>>, <<140, 240>>, <<320, 340>>, <<420, 240>>}

\* createProjectionMatrix for a vertical field of view of 90 degrees
\* (tan(fovY / 2) = 1), the aspect of the screen, near 1 and far 3.
StandardProjection ==
  CreateProjectionMatrix(RInt(1), Rat(ScreenWidth, ScreenHeight), RInt(1), RInt(3))

\* The view matrix [R^T | -R^T c] of a camera at height h pitched down by the
\* angle of cosine c and sine s, as the column-major array screenToRay reads.
ViewMatrix(c, s, h) ==
  Mat4(LAMBDA k :
    CASE k \in {0, 15} -> RInt(1)
      [] k \in {5, 10} -> c
      [] k = 6 -> s
      [] k = 9 -> RNeg(s)
      [] k = 13 -> RNeg(RMul(c, h))
      [] k = 14 -> RNeg(RMul(s, h))
      [] OTHER -> RInt(0))

ViewMatrices ==
  {IdentityMatrix,
   ViewMatrix(RInt(1), RInt(0), RInt(1)),
   ViewMatrix(<<4, 5>>, <<3, 5>>, RInt(1)),
   ViewMatrix(<<3, 5>>, <<4, 5>>, RInt(2)),
   ZeroMatrix}
ProjectionMatrices == {StandardProjection, ZeroMatrix}

\* HitTester::hitTest.
HitTestAt(screenX, screenY, viewMatrix, projMatrix) ==
  /\ hitResult' =
       IF ~hasValidPlane THEN HitTestResult
       ELSE RayPlaneIntersect(
              ScreenToRay(RInt(screenX), RInt(screenY), ScreenWidth, ScreenHeight,
                          viewMatrix, projMatrix),
              groundPlane)
  /\ UNCHANGED <<groundPlane, hasValidPlane, planeState>>
  /\ NotTargets

HitTest ==
  \E p \in ScreenPixels, viewMatrix \in ViewMatrices, projMatrix \in ProjectionMatrices :
    HitTestAt(p[1], p[2], viewMatrix, projMatrix)

NextHit ==
  \/ SetDefaultGroundPlane
  \/ EstimateGroundPlane
  \/ HitTest

SpecHit == Init /\ [][NextHit]_vars

\* ------------------------------------------------ fitPlaneRANSAC, the loop
\* PlaneDetector::fitPlaneRANSAC and HitTester::fitPlaneRANSAC step by step:
\* one step per pass of `for (iter = 0; iter < 100; iter++)`.
RANSAC_ITERATIONS == 100
HIT_RANSAC_ITERATIONS == 100
RansacOwners == {"PlaneDetector", "HitTester"}
RansacIterations(owner) ==
  IF owner = "PlaneDetector" THEN RANSAC_ITERATIONS ELSE HIT_RANSAC_ITERATIONS
RansacMinInliers(owner) ==
  IF owner = "PlaneDetector" THEN MIN_PLANE_POINTS ELSE HIT_MIN_INLIERS
\* Sizes of the point vector: too small to fit, and large enough for a fit of
\* either detector.
RansacPointCounts == {2, MIN_PLANE_POINTS}
\* The indices dis(gen) is seen to return, out of 0 .. points.size() - 1.
RansacIndices == 0..2
\* Inlier counts of an evaluated sample, around the owner's threshold.
RansacInlierCounts(owner) == {RansacMinInliers(owner) - 1, RansacMinInliers(owner)}

NotRansac == UNCHANGED <<slamState, cvState, callState, voState, loopState>>

\* Entry: points.size() < 3 returns false; otherwise the loop starts.
FitStart ==
  /\ ransacStatus # "running"
  /\ \E owner \in RansacOwners, n \in RansacPointCounts :
       /\ ransacOf' = owner
       /\ ransacStatus' = IF n < 3 THEN "failed" ELSE "running"
  /\ iter' = 0
  /\ sample' = <<>>
  /\ bestInlierCount' = 0
  /\ NotRansac

\* "if (i1 == i2 || i2 == i3 || i1 == i3) continue;"
Repeated(i1, i2, i3) == i1 = i2 \/ i2 = i3 \/ i1 = i3

\* One pass of the loop: three draws; `continue` on a repeated index or on a
\* degenerate triple, which goes to iter++ like the end of the body;
\* otherwise the inliers of the plane are counted and the best is kept.
FitIteration ==
  /\ ransacStatus = "running"
  /\ iter < RansacIterations(ransacOf)
  /\ \E i1, i2, i3 \in RansacIndices :
       /\ sample' = <<i1, i2, i3>>
       /\ IF Repeated(i1, i2, i3)
          THEN UNCHANGED bestInlierCount
          ELSE \E degenerate \in BOOLEAN, count \in RansacInlierCounts(ransacOf) :
                 bestInlierCount' = IF ~degenerate /\ count > bestInlierCount
                                    THEN count ELSE bestInlierCount
  /\ iter' = iter + 1
  /\ UNCHANGED <<ransacOf, ransacStatus>>
  /\ NotRansac

\* After the loop: bestInlierCount below the owner's minimum returns false.
FitEnd ==
  /\ ransacStatus = "running"
  /\ iter >= RansacIterations(ransacOf)
  /\ ransacStatus' = IF bestInlierCount < RansacMinInliers(ransacOf) THEN "failed" ELSE "fit"
  /\ UNCHANGED <<ransacOf, iter, sample, bestInlierCount>>
  /\ NotRansac

NextRansac ==
  \/ FitStart
  \/ FitIteration
  \/ FitEnd

SpecRansac == Init /\ [][NextRansac]_vars

\* -------------------------------------------- createKeyFrame, loop closure
\* SLAMSystem::createKeyFrame called again and again on an engine that has
\* initialized, with detectLoopClosure as it runs once more than
\* LOOP_MIN_KEYFRAMES keyframes are stored.  In the runs of Spec the store
\* stays below that number.
LOOP_MIN_KEYFRAMES == 10
LOOP_SKIP == 5
LOOP_MIN_GOOD == 50

\* "for (size_t i = 0; i < keyframes.size() - 5; i++)": the positions compared.
LoopCandidates(kfs) == 0..(Len(kfs) - LOOP_SKIP - 1)

\* goodCount of one candidate: matches with distance < 40; none when either
\* keyframe has no descriptors.
LoopGoodCounts(kf, currentKF) ==
  IF kf.descriptors.n > 0 /\ currentKF.descriptors.n > 0
  THEN {LOOP_MIN_GOOD, LOOP_MIN_GOOD + 1}
  ELSE {0}

\* bestMatch after the candidates up to position i: the first one with the
\* highest goodCount above LOOP_MIN_GOOD, -1 when there is none.
RECURSIVE BestMatch(_, _)
BestMatch(counts, i) ==
  IF i = 0 THEN [bestMatch |-> -1, bestMatchCount |-> 0]
  ELSE LET b == BestMatch(counts, i - 1)
       IN IF counts[i] > b.bestMatchCount /\ counts[i] > LOOP_MIN_GOOD
          THEN [bestMatch |-> i - 1, bestMatchCount |-> counts[i]]
          ELSE b

\* SLAMSystem::detectLoopClosure(currentKF) on the store kfs: the goodCount
\* sequences it can see.
DetectLoopClosure(kfs, currentKF) ==
  {counts \in [1..Cardinality(LoopCandidates(kfs)) -> {0, LOOP_MIN_GOOD, LOOP_MIN_GOOD + 1}] :
     \A i \in LoopCandidates(kfs) : counts[i + 1] \in LoopGoodCounts(kfs[i + 1], currentKF)}

\* The first two frames of the engine.
LoopInitialize ==
  \E n \in FeatureCounts :
    /\ CallUpTo(2, TRUE, n)
    /\ Initialize(n)

\* createKeyFrame(frame) with a triangulation that finds no new point.
InsertKeyFrame ==
  /\ initialized /\ tracking
  /\ Len(keyframes) < MaxKeyFrames
  /\ LET r == CreateKeyFrame(currentPose, <<0, 0>>)
     IN /\ keyframes' = r.keyframes
        /\ nextKeyFrameId' = r.nextKeyFrameId
        /\ mapPoints' = r.mapPoints
        /\ nextMapPointId' = r.nextMapPointId
  /\ IF Len(keyframes') > LOOP_MIN_KEYFRAMES
     THEN /\ loopRan' = TRUE
          /\ \E counts \in DetectLoopClosure(keyframes', Last(keyframes')) :
               /\ loopCounts' = counts
               /\ bestMatch' = BestMatch(counts, Len(counts)).bestMatch
     ELSE /\ loopRan' = FALSE
          /\ loopCounts' = <<>>
          /\ bestMatch' = -1
  /\ UNCHANGED <<initialized, tracking, frameCount, currentPose, prevFrame, prevKeypoints,
                 prevDescriptors, cvState, callState, voState, ransacState>>

NextLoop ==
  \/ LoopInitialize
  \/ InsertKeyFrame

SpecLoop == Init /\ [][NextLoop]_vars

\* ================================================================ claims

\* C1: every processFrame call of the SLAM facade returns true exactly when
\* isTracking() is true right after the call, also before initialization.
C1_ReturnReportsTracking == frameCount > 0 => (lastRet = tracking)

\* C2: in WaitingSecondView (a first view cached, not initialized), a call
\* that fails to initialize, for whatever reason, makes the new frame the
\* cached previous frame (image, keypoints, descriptors) and stays there.
C2_FailedInitReplacesCache ==
  [][(frameCount' # frameCount /\ ~initialized /\ prevFrame # NoFrame /\ ~initialized')
       => /\ prevFrame' = ThisFrame
          /\ prevKeypoints'.frame = ThisFrame
          /\ prevDescriptors'.frame = ThisFrame]_vars

\* C3: a tracking call whose pose comes from the frame-to-frame fallback
\* inserts no keyframe and creates no map point.
C3_FallbackLeavesMap ==
  [][(frameCount' # frameCount /\ lastPath' = "track_fallback")
       => (keyframes' = keyframes /\ mapPoints' = mapPoints)]_vars

\* C4: no call removes a map point, sets isBad, or lowers the map-point or
\* keyframe count; this includes the calls that lose tracking.
C4_NoMapDamage ==
  /\ \A id \in DOMAIN mapPoints : id \in DOMAIN mapPoints' /\ ~mapPoints'[id].isBad
  /\ \A id \in DOMAIN mapPoints' : ~mapPoints'[id].isBad
  /\ Cardinality(DOMAIN mapPoints') >= Cardinality(DOMAIN mapPoints)
  /\ Len(keyframes') >= Len(keyframes)
\* C4: every step of the engine, a loss of tracking included, keeps the map.
C4_MapSurvivesTrackingLoss == [][C4_NoMapDamage]_vars
C4_Witness ==
  /\ initialized /\ ~tracking
  /\ lastPath \in {"track_few_features", "track_few_matches", "track_pnp_failed"}
  /\ Cardinality(DOMAIN mapPoints) >= MIN_TRACKING_MATCHES
  /\ Len(keyframes) >= 2

\* C5: keyframe ids and map-point ids are strictly increasing in creation
\* order: the keyframe sequence is strictly ordered by id, every id in use lies
\* below its counter, every map point is stored under its own id, a call's new
\* ids exceed all earlier ones, and no stored map point is ever overwritten.
C5_IdsOrdered ==
  /\ \A i, j \in 1..Len(keyframes) : i < j => keyframes[i].id < keyframes[j].id
  /\ \A i \in 1..Len(keyframes) : keyframes[i].id < nextKeyFrameId
  /\ \A id \in DOMAIN mapPoints : mapPoints[id].id = id /\ id < nextMapPointId
C5_IdsGrow ==
  /\ \A id \in DOMAIN mapPoints : id \in DOMAIN mapPoints' /\ mapPoints'[id] = mapPoints[id]
  /\ \A new \in (DOMAIN mapPoints') \ (DOMAIN mapPoints) :
       /\ new >= nextMapPointId
       /\ \A old \in DOMAIN mapPoints : new > old
  /\ \A j \in (Len(keyframes) + 1)..Len(keyframes') :
       /\ keyframes'[j].id >= nextKeyFrameId
       /\ \A i \in 1..Len(keyframes) : keyframes'[j].id > keyframes[i].id
  /\ Cardinality(DOMAIN mapPoints') - Cardinality(DOMAIN mapPoints)
       = nextMapPointId' - nextMapPointId
  /\ Len(keyframes') - Len(keyframes) = nextKeyFrameId' - nextKeyFrameId
\* C5: ids are ordered in every state and grow in every step.
C5_MonotonicIds == [](C5_IdsOrdered) /\ [][C5_IdsGrow]_vars
C5_Witness ==
  /\ Len(keyframes) >= 3
  /\ Cardinality(DOMAIN mapPoints) > MIN_TRACKING_MATCHES

\* C6: every keyframe has exactly one mapPointIds entry per keypoint, at
\* creation and after each triangulation that links it.
C6_KeyframeConsistency ==
  \A i \in 1..Len(keyframes) :
    /\ Len(keyframes[i].mapPointIds) = keyframes[i].keypoints.n
    /\ DOMAIN keyframes[i].mapPointIds = 1..keyframes[i].keypoints.n
C6_Witness ==
  /\ Len(keyframes) >= 3
  /\ \E q \in DOMAIN keyframes[2].mapPointIds :
       keyframes[2].mapPointIds[q] >= MIN_TRACKING_MATCHES
  /\ \E q \in DOMAIN keyframes[3].mapPointIds : keyframes[3].mapPointIds[q] >= 0

\* C7: initialization is atomic.  initialized turns true only in the call
\* whose second-view initialization succeeds; that call creates KF0 (id 0,
\* identity pose, from the cached frame) and KF1 (id 1, from the new frame),
\* sets currentPose to KF1's pose and sets tracking.  So there are no
\* keyframes and no map points before, and at least two keyframes after.
C7_Counts ==
  /\ ~initialized => (Len(keyframes) = 0 /\ DOMAIN mapPoints = {})
  /\ initialized => Len(keyframes) >= 2
C7_InitStep ==
  (~initialized /\ initialized')
    => /\ lastPath' = "init_success"
       /\ Len(keyframes') = 2
       /\ keyframes'[1].id = 0
       /\ keyframes'[1].pose = IdentityPose
       /\ keyframes'[1].image = Older(prevFrame)
       /\ keyframes'[1].keypoints = OlderKeypoints(prevKeypoints)
       /\ keyframes'[1].descriptors = OlderKeypoints(prevDescriptors)
       /\ keyframes'[2].id = 1
       /\ keyframes'[2].image = ThisFrame
       /\ keyframes'[2].keypoints.frame = ThisFrame
       /\ keyframes'[2].descriptors.frame = ThisFrame
       /\ currentPose' = keyframes'[2].pose
       /\ tracking'
\* C7: the counts hold in every state; initialized flips only in, and in
\* every, successful second-view call, which builds KF0 and KF1 in one step.
C7_AtomicInitialization ==
  /\ [](C7_Counts)
  /\ [][C7_InitStep /\ (lastPath' = "init_success" /\ frameCount' # frameCount
                          => ~initialized /\ initialized')]_vars
C7_Witness ==
  /\ initialized /\ tracking /\ lastPath = "init_success"
  /\ Len(keyframes) = 2 /\ DOMAIN mapPoints # {}

\* C8: while every frame delivered so far had fewer than MIN_INIT_MATCHES
\* features, the engine is uninitialized, not tracking, has no keyframe, no
\* map point and no cached first view, and the call returned false.
C8_FeaturelessStaysUninitialized ==
  (allLow /\ frameCount > 0)
    => /\ ~initialized /\ ~tracking
       /\ keyframes = <<>> /\ DOMAIN mapPoints = {}
       /\ prevFrame = NoFrame /\ prevKeypoints = NoKeypoints
       /\ prevDescriptors = NoKeypoints
       /\ lastRet = FALSE
C8_Witness == allLow /\ frameCount >= 10 /\ lastPath = "init_few_features"

\* C9: a processFrame call of the SLAM facade binding whose buffer length
\* is not width * height * 4 returns false and leaves the engine state
\* unchanged.
C9_BadBufferRejected ==
  [][(ProcessFrameAnyBuffer /\ ~lastBufOk')
       => (lastRet' = FALSE /\ UNCHANGED slamState)]_vars

\* The SLAM engine as its constructor leaves it.
FreshSlam ==
  /\ ~initialized /\ ~tracking /\ frameCount = 0
  /\ nextMapPointId = 0 /\ nextKeyFrameId = 0
  /\ currentPose = IdentityPose
  /\ DOMAIN mapPoints = {} /\ keyframes = <<>>
  /\ prevFrame = NoFrame /\ prevKeypoints = NoKeypoints /\ prevDescriptors = NoKeypoints
\* C10: after a reset the state of the SLAM engine equals that of a freshly
\* constructed one: frame counter, cached frame, pose, flags, keyframes, map
\* points and id counters.
C10_ResetRevertsAll == lastPath = "reset" => FreshSlam

\* C16: a keyframe is a snapshot of one frame: its keypoints and descriptors
\* are those extracted from its own image.  (A keyframe records, for its image
\* and for its features, how many calls before its creation the frame came in.)
C16_KeyframeIsOneFrame ==
  \A i \in 1..Len(keyframes) :
    /\ keyframes[i].keypoints.frame = keyframes[i].image
    /\ keyframes[i].descriptors.frame = keyframes[i].image

\* C17: after every processFrame call on an initialized engine, whether it
\* ended tracking or lost, the cached previous image, keypoints and descriptors
\* are those of the frame passed to that call.
C17_PrevIsLastFrame ==
  [][(frameCount' # frameCount /\ initialized)
       => /\ prevFrame' = ThisFrame
          /\ prevKeypoints'.frame = ThisFrame
          /\ prevDescriptors'.frame = ThisFrame]_vars

\* C18: on a tracking-step frame, tracking becomes (or stays) false only on a
\* path that ran the frame-to-frame fallback, or could not run it for want of
\* keypoints; a failed PnP is followed by the fallback.
C18_FallbackBeforeLoss ==
  [][(frameCount' # frameCount /\ initialized /\ ~tracking')
       => lastPath' \in {"track_few_features", "track_few_matches",
                         "track_fallback_empty_essential"}]_vars

\* C19: after initialization a call inserts a keyframe exactly when it ends
\* tracking, frameCount is a multiple of KEYFRAME_INTERVAL and currentPose is
\* more than KEYFRAME_TRANSLATION away from the last keyframe's pose; it
\* inserts at most one.
C19_Inserted == Len(keyframes') - Len(keyframes)
C19_Decision ==
  (frameCount' # frameCount /\ initialized)
    => /\ C19_Inserted \in {0, 1}
       /\ (C19_Inserted = 1) <=>
            /\ tracking'
            /\ frameCount' % KEYFRAME_INTERVAL = 0
            /\ Abs(currentPose'.t - Last(keyframes).pose.t) > KEYFRAME_TRANSLATION
       /\ ~tracking' => C19_Inserted = 0
\* C19: the keyframe decision holds of every call on an initialized engine.
C19_KeyframeDecision == [][C19_Decision]_vars
C19_Witness ==
  /\ lastPath = "track_pnp" /\ tracking
  /\ frameCount % KEYFRAME_INTERVAL = 0
  /\ Len(keyframes) = 3
  /\ Last(keyframes).pose = currentPose

\* C20: every link of a keyframe names a stored map point; every map point
\* has the two observations of the keyframe pair that triangulated it and is
\* linked from exactly one keypoint in each of the two; a link once set stays.
C20_Linked(i) ==
  {q \in DOMAIN keyframes[i].mapPointIds : keyframes[i].mapPointIds[q] >= 0}
C20_Links ==
  /\ \A id \in DOMAIN mapPoints :
       LET obs == mapPoints[id].observations
       IN /\ Len(obs) = 2
          /\ obs[1] # obs[2]
          /\ \A k \in 1..2 : \E i \in 1..Len(keyframes) : keyframes[i].id = obs[k]
  /\ \A i \in 1..Len(keyframes) :
       LET kf == keyframes[i]
           linked == C20_Linked(i)
           ids == {kf.mapPointIds[q] : q \in linked}
       IN \* every link names a stored point, no point is linked twice, ...
          /\ ids \subseteq DOMAIN mapPoints
          /\ Cardinality(ids) = Cardinality(linked)
          \* ... and the keyframe links exactly the points that observe it
          /\ \A id \in DOMAIN mapPoints :
               (id \in ids) <=> (kf.id \in {mapPoints[id].observations[1],
                                            mapPoints[id].observations[2]})
C20_LinksStay ==
  \/ keyframes' = keyframes
  \/ \A i \in 1..Len(keyframes) : \A q \in DOMAIN keyframes[i].mapPointIds :
       keyframes[i].mapPointIds[q] >= 0
         => keyframes'[i].mapPointIds[q] = keyframes[i].mapPointIds[q]
\* C20: the links are consistent in every state and kept by every step.
C20_LinkConsistency == [](C20_Links) /\ [][C20_LinksStay]_vars
C20_Witness ==
  /\ Len(keyframes) >= 3
  /\ \E q \in DOMAIN keyframes[2].mapPointIds :
       /\ keyframes[2].mapPointIds[q] >= 0
       /\ keyframes[2].mapPointIds[q] < MIN_TRACKING_MATCHES
  /\ \E q \in DOMAIN keyframes[2].mapPointIds :
       keyframes[2].mapPointIds[q] >= MIN_TRACKING_MATCHES
  /\ \E q \in DOMAIN keyframes[3].mapPointIds : keyframes[3].mapPointIds[q] >= 0

\* C11: every published detection passed every gate: it has four corners
\* forming a convex quadrilateral, at least MIN_MATCHES good matches and
\* inliers, and a confidence inliers / good matches in (0, 1].
C11_PublishedPassedGates ==
  \A k \in 1..Len(detectedTargets) :
    LET d == detectedTargets[k]
    IN /\ d.corners.n = 4
       /\ d.corners.convex
       /\ d.confidence[2] >= TARGET_MIN_MATCHES
       /\ d.confidence[1] >= TARGET_MIN_MATCHES
       /\ 0 < d.confidence[1] /\ d.confidence[1] <= d.confidence[2]
C11_Witness ==
  /\ Len(detectedTargets) >= 2
  /\ \E k \in 1..Len(detectedTargets) :
       detectedTargets[k].confidence[1] < detectedTargets[k].confidence[2]
  /\ Len(detectedTargets) < Len(targets)

\* C12: every plane the detector holds has normal.y >= 0, and the hit
\* tester's ground plane, default or estimated, has ny > 0.
C12_NormalsUpward ==
  /\ \A k \in 1..Len(planes) : ~RLt(planes[k].normal[2], RInt(0))
  /\ hasValidPlane => RLt(RInt(0), groundPlane.ny)
\* C26: a hit test whose view matrix or projection matrix is singular
\* (invertMatrix4x4 returns false) reports no hit, whatever ground plane
\* setDefaultGroundPlane or estimateGroundPlane installed before.
C26_Singular(m) == ~InvertMatrix4x4(m).ok
C26_Step ==
  \A p \in ScreenPixels, viewMatrix \in ViewMatrices, projMatrix \in ProjectionMatrices :
    (/\ C26_Singular(viewMatrix) \/ C26_Singular(projMatrix)
     /\ HitTestAt(p[1], p[2], viewMatrix, projMatrix))
      => ~hitResult'.hit
C26_SingularDropsAttempt == [][C26_Step]_vars

\* C15: after every processFrame call of the visual odometry the flow list
\* holds one (dx, dy) pair per published feature, in the order of the feature
\* list: len(flowVectors) = 2 * featureCount = len(featurePositions), pair k is
\* the displacement of feature k since the previous frame, and
\* len(featureMeta) = 4 * featureCount.
C15_Displacement(k) ==
  \A j \in 1..Len(pointIds) :
    pointIds[j] = pointIds'[k] =>
      /\ frameData'.flowVectors[2 * k - 1] = currPoints'[k][1] - currPoints[j][1]
      /\ frameData'.flowVectors[2 * k] = currPoints'[k][2] - currPoints[j][2]
C15_Step ==
  voFrameCount' = voFrameCount + 1 =>
    /\ Len(frameData'.flowVectors) = 2 * frameData'.featureCount
    /\ Len(frameData'.featurePositions) = 2 * frameData'.featureCount
    /\ Len(frameData'.featureMeta) = 4 * frameData'.featureCount
    /\ \A k \in 1..frameData'.featureCount : C15_Displacement(k)
C15_FlowPerFeature == [][C15_Step]_vars

\* C14: the array handed over by getViewMatrix and by getProjectionMatrix is
\* the matrix in column-major order (element k is the entry of row k mod 4 and
\* column k div 4): the translation of the view matrix is at 12..14 and the
\* -1 of the projection (row 3, column 2) at 11.
C14_ColumnMajorOf(array, mat) ==
  \A k \in 0..15 : array[k + 1] = MatAt(mat, k % 4, k \div 4)
C14_Step ==
  /\ GetViewMatrix =>
       /\ C14_ColumnMajorOf(lastArray', ViewMat(currentPose))
       /\ \A i \in 0..2 : lastArray'[12 + i + 1] = MatAt(ViewMat(currentPose), i, 3)
  /\ \A d \in ProjectionDims :
       GetProjectionMatrixOf(d[1], d[2]) =>
         /\ C14_ColumnMajorOf(lastArray', ProjectionMat(d[1], d[2]))
         /\ lastArray'[11 + 1] = RInt(-1)
C14_ColumnMajor == [][C14_Step]_vars

\* C13: a hit test at the screen centre with the default ground plane, the
\* identity view matrix and the standard projection reports a hit whose point
\* is within 1e-4 of (0, 0, 0).
EPS4 == <<1, 10000>>
C13_NearZero(r) == RLt(RAbs(r), EPS4) \/ RAbs(r) = EPS4
C13_CentreHit ==
  /\ groundPlane = DefaultGroundPlane
  /\ HitTestAt(ScreenWidth \div 2, ScreenHeight \div 2, IdentityMatrix, StandardProjection)
C13_CentreHitsOrigin ==
  [][C13_CentreHit =>
       /\ hitResult'.hit
       /\ C13_NearZero(hitResult'.x)
       /\ C13_NearZero(hitResult'.y)
       /\ C13_NearZero(hitResult'.z)]_vars

C12_Witness ==
  /\ planeRuns = MaxDetections
  /\ \E k \in 1..Len(planes) : planes[k].center # planes[k].corners.center
  /\ \E k \in 1..Len(planes) : planes[k].normal[3] # RInt(0)
  /\ groundPlane.nz # RInt(0)

\* C22: plane detection runs on every processFrame call whose frame number is
\* a multiple of PLANE_INTERVAL while the map holds at least
\* PLANE_MIN_MAP_POINTS non-bad points, and on no other call; also on such a
\* frame on which tracking is lost.
C22_Due == /\ frameCount' % PLANE_INTERVAL = 0
           /\ Cardinality(NonBad(mapPoints')) >= PLANE_MIN_MAP_POINTS
C22_Step == (frameCount' = frameCount + 1) => (planeRan' <=> C22_Due)
C22_PlaneCadence == [][C22_Step]_vars

\* C23: image-target detection runs on every processFrame call whose frame
\* number is a multiple of TARGET_INTERVAL while at least one target is
\* registered, and on no other call, whatever the state of the engine
\* (not initialized, tracking, lost).
C23_Due == frameCount' % TARGET_INTERVAL = 0 /\ Len(targets') > 0
C23_Step == (frameCount' = frameCount + 1) => (targetRan' <=> C23_Due)
C23_TargetCadence == [][C23_Step]_vars

\* C27: on an initialized engine a processFrame call ends with tracking set
\* (and returns true) only if currentPose was estimated during that call, by a
\* successful PnP or by applying a frame-to-frame essential-matrix delta;
\* every other call ends with tracking cleared, whatever it was before.
C27_PoseEstimated == lastPath' \in {"track_pnp", "track_fallback"}
C27_Step ==
  (frameCount' = frameCount + 1 /\ initialized)
    => /\ tracking' <=> C27_PoseEstimated
       /\ lastRet' = tracking'
C27_TrackingMeansFreshPose == [][C27_Step]_vars

\* C24: a newly fitted plane is merged into an existing plane, instead of
\* being appended, if and only if some existing plane has the same
\* isHorizontal class, |normal . normal'| >= 0.95 and a centre closer than
\* 0.1; the merge makes the existing plane's centre the midpoint of the two,
\* its width and height the larger ones and its confidence
\* min(1, old + 0.5 * new), and stores no further plane; every stored
\* confidence stays within [0, 1].
C24_Mergeable(p, new) ==
  /\ p.isHorizontal = new.isHorizontal
  /\ ~RLt(RAbs(Dot(p.normal, new.normal)), <<19, 20>>)
  /\ LET diff == VSub(p.center, new.center)
     IN RLt(Dot(diff, diff), <<1, 100>>)
C24_Larger(a, b) == IF RLt(a, b) THEN b ELSE a
C24_Merged(p, new) ==
  LET sum == RAdd(p.confidence, RMul(<<1, 2>>, new.confidence))
  IN [p EXCEPT !.center = VScale(VAdd(p.center, new.center), <<1, 2>>),
               !.width = C24_Larger(p.width, new.width),
               !.height = C24_Larger(p.height, new.height),
               !.confidence = IF RLt(RInt(1), sum) THEN RInt(1) ELSE sum]
RECURSIVE C24_Outcomes(_, _, _)
C24_Outcomes(ps, cands, k) ==
  IF k > Len(cands) THEN {ps}
  ELSE LET new == cands[k]
           into == {i \in 1..Len(ps) : C24_Mergeable(ps[i], new)}
       IN IF into = {}
          THEN C24_Outcomes(Append(ps, new), cands, k + 1)
          ELSE UNION {C24_Outcomes([ps EXCEPT ![i] = C24_Merged(ps[i], new)], cands, k + 1) :
                        i \in into}
C24_Step ==
  (planeRuns' = planeRuns + 1) => planes' \in C24_Outcomes(planes, planeCandidates', 1)
C24_Confidence ==
  \A k \in 1..Len(planes) :
    /\ ~RLt(planes[k].confidence, RInt(0))
    /\ ~RLt(RInt(1), planes[k].confidence)
C28_CornersFollowBounds ==
  \A k \in 1..Len(planes) :
    planes[k].corners = [center |-> planes[k].center, width |-> planes[k].width,
                         height |-> planes[k].height]

\* C30: the stored planes have pairwise distinct ids and the plane at list
\* position k (from 0) has id k; nextPlaneId is the number of stored planes,
\* so the id of a merged candidate goes to the next appended plane; a merge
\* leaves the id of the existing plane as it is.
C30_Dense ==
  /\ \A k \in 1..Len(planes) : planes[k].id = k - 1
  /\ \A i, j \in 1..Len(planes) : planes[i].id = planes[j].id => i = j
  /\ nextPlaneId = Len(planes)
C30_IdsStay ==
  /\ Len(planes') >= Len(planes)
  /\ \A k \in 1..Len(planes) : planes'[k].id = planes[k].id
C30_DenseIds == [](C30_Dense) /\ [][C30_IdsStay]_vars
\* A detection that merged a candidate (the list is shorter than the
\* candidates built) and appended a plane after the merge.
C30_Witness ==
  /\ planeRuns = MaxDetections
  /\ Len(planeCandidates) = 3
  /\ Len(planes) = 2
  /\ planes[1].center # planes[1].corners.center
  /\ planeCandidates[2].id = 1 /\ planeCandidates[3].id = 1
  /\ planes[2].id = 1

\* C29: every entry of getDetectedTargets() names a target that is registered
\* now, and no target id appears twice in the list, after any interleaving of
\* addTarget, removeTarget, clearTargets and detectTargets.
C29_Registered == {targets[i].id : i \in 1..Len(targets)}
C29_DetectedAreRegistered ==
  /\ \A k \in 1..Len(detectedTargets) : detectedTargets[k].targetId \in C29_Registered
  /\ \A i, j \in 1..Len(detectedTargets) :
       detectedTargets[i].targetId = detectedTargets[j].targetId => i = j

\* C25: in the RANSAC loop of either detector a draw of three indices with a
\* repeated index is re-rolled and does not consume an iteration: every
\* iteration that is consumed evaluated three pairwise distinct indices.
C25_Step ==
  (ransacStatus = "running" /\ iter' = iter + 1)
    => (sample'[1] # sample'[2] /\ sample'[2] # sample'[3] /\ sample'[1] # sample'[3])
C25_DuplicatesRerolled == [][C25_Step]_vars

\* C21: loop-closure detection runs only for a just-inserted keyframe and only
\* when more than 10 keyframes are stored; for the inserted keyframe of index
\* n the keyframes compared against it are exactly those of index i < n - 5.
C21_Compared == {i - 1 : i \in DOMAIN loopCounts'}
C21_Step ==
  (keyframes' # keyframes) =>
    LET n == Len(keyframes') - 1
    IN /\ loopRan' <=> (Len(keyframes') > 10)
       /\ loopRan' => C21_Compared = {i \in 0..n : i < n - 5}
C21_LoopCandidates == [][C21_Step]_vars

====
